---- MODULE Spec2Model ----
(***************************************************************************)
(* The vote API of poc-ory-hydra-kratos: the Node service (README.md,      *)
(* lines 173-277) and the Java/Vert.x service (VoteApiVerticle), each an   *)
(* operating-system process with its own in-memory vote list.              *)
(*                                                                         *)
(* A POST /vote is handled in two atomic pieces: the synchronous start of  *)
(* the handler up to the token verification (ReceiveVote), and the        *)
(* continuation that runs once verification has finished (CompleteVote).   *)
(***************************************************************************)
EXTENDS Naturals, Sequences, FiniteSets, TLC

\* Number of POST /vote requests the clients send in one behaviour.
MaxReqs == 2

\* The fetches of the key set of one process are counted up to this number.
MaxFetches == 2

\* The two vote-API processes of the deployment: vote-api (Node, port 4000)
\* and vote-api-java (Vert.x, port 4001).  They share no memory.
Instances == {"node", "java"}

Slots == 1..MaxReqs

-----------------------------------------------------------------------------
(* Text.  A string whose characters matter (a scope claim) is a tuple of     *)
(* one-character strings; an identifier that is only compared is a string.   *)

SPACE == " "

\* "vote:cast"
REQUIRED_SCOPE == <<"v", "o", "t", "e", ":", "c", "a", "s", "t">>

\* "openid"
OPENID == <<"o", "p", "e", "n", "i", "d">>

\* "vote:castle", a scope that has the required one as a prefix
CASTLE_SCOPE == REQUIRED_SCOPE \o <<"l", "e">>

\* The granted scopes written as one space-separated string, as the token
\* issuer writes the scope claim.
RECURSIVE JoinWithSpaces(_)
JoinWithSpaces(words) ==
    IF words = <<>> THEN <<>>
    ELSE IF Len(words) = 1 THEN words[1]
    ELSE words[1] \o <<SPACE>> \o JoinWithSpaces(Tail(words))

\* String.prototype.split(' ') / String.split(" "): the pieces between the
\* separators.  (Java drops trailing empty pieces, JavaScript keeps them; an
\* empty piece is never the required scope.)
RECURSIVE SplitFrom(_, _, _)
SplitFrom(s, i, cur) ==
    IF i > Len(s) THEN <<cur>>
    ELSE IF s[i] = SPACE THEN <<cur>> \o SplitFrom(s, i + 1, <<>>)
    ELSE SplitFrom(s, i + 1, Append(cur, s[i]))

Split(s) == SplitFrom(s, 1, <<>>)

\* A variant of Includes that accepts an element that starts with x.
IncludesPrefix(list, x) ==
    \E k \in 1..Len(list) :
        Len(list[k]) >= Len(x) /\ SubSeq(list[k], 1, Len(x)) = x

\* Array.prototype.includes / List.contains
Includes(list, x) == \E k \in 1..Len(list) : list[k] = x

-----------------------------------------------------------------------------
(* Values of a JSON request body.  A string is compared by its text; an      *)
(* array is an object, allocated when the body of a request is parsed, and   *)
(* ref names the request whose parse allocated it.                           *)

Undefined == [t |-> "undefined", v |-> "", ref |-> 0]
Str(s)    == [t |-> "string", v |-> s, ref |-> 0]
\* The one-element array [s] as written on the wire (not yet allocated).
ArrOf(s)  == [t |-> "array", v |-> s, ref |-> 0]

\* express.json() / BodyHandler: the body of request r, parsed.
ParseValue(w, r) == IF w.t = "array" THEN [w EXCEPT !.ref = r] ELSE w
\* present is FALSE for a request sent without a body.  voterId is the
\* field the load test adds to the body; the handlers never read it.
ParseBody(b, r) ==
    [present     |-> b.present,
     electionId  |-> ParseValue(b.electionId, r),
     candidateId |-> ParseValue(b.candidateId, r),
     voterId     |-> ParseValue(b.voterId, r)]

\* JavaScript: !x is false exactly for a truthy x.  undefined and "" are
\* falsy, every object (an array too, even an empty one) is truthy.
Truthy(x) == \/ x.t = "array"
             \/ x.t = "string" /\ x.v # ""

\* JavaScript a === b: strings by text, objects by identity.
StrictEquals(a, b) ==
    IF a.t = "array" \/ b.t = "array"
    THEN a.t = b.t /\ a.ref = b.ref
    ELSE a.t = b.t /\ a.v = b.v

\* JavaScript ToPropertyKey for counts[x]: the string itself; an array is
\* joined with ",", so [s] gives s.
ToPropertyKey(x) == IF x.t = "undefined" THEN "undefined" ELSE x.v

\* JsonArray.toString() is its JSON encoding: ["e1"] gives the text ["e1"].
JsonArrayToString(s) ==
    CASE s = "e1" -> "[\"e1\"]"
      [] s = "e2" -> "[\"e2\"]"
      [] s = "A"  -> "[\"A\"]"
      [] s = "B"  -> "[\"B\"]"
      [] OTHER    -> "[...]"

NullString == [t |-> "null", v |-> "", ref |-> 0]

\* io.vertx.core.json.JsonObject.getString(key): null when the key is absent,
\* the string itself, and toString() of any other value.
getString(x) ==
    IF x.t = "undefined" THEN NullString
    ELSE IF x.t = "string" THEN x
    ELSE Str(JsonArrayToString(x.v))

-----------------------------------------------------------------------------
(* Bearer tokens.  A token is described by what the verifier can find wrong  *)
(* with it, and by its claims.  granted is the set of scopes the issuer      *)
(* granted when it wrote the token's scope claims.                           *)

NoClaim == [t |-> "undefined", s |-> <<>>, l |-> <<>>]
StringClaim(chars) == [t |-> "string", s |-> chars, l |-> <<>>]
ListClaim(words)   == [t |-> "array", s |-> <<>>, l |-> words]

RECURSIVE SeqToSet(_)
SeqToSet(q) == IF q = <<>> THEN {} ELSE {Head(q)} \cup SeqToSet(Tail(q))

\* An access token as Hydra issues it for subject sub with the scopes words:
\* style "string" writes the claim scope, a space-separated string; style
\* "list" writes the claim scp, an array.  eligible tells whether the token
\* carries the claim eligible=true; the tokens of the OAuth flow do not.
AccessToken(sub, words, style) ==
    [auth    |-> TRUE,
     form    |-> "compact",
     sig     |-> "hydra",
     payload |-> "object",
     iss     |-> "hydra",
     expired |-> FALSE,
     sub     |-> sub,
     eligible |-> FALSE,
     scope   |-> IF style = "string" THEN StringClaim(JoinWithSpaces(words)) ELSE NoClaim,
     scp     |-> IF style = "list" THEN ListClaim(words) ELSE NoClaim,
     granted |-> SeqToSet(words)]

\* The signing keys of the issuer: the one it starts with and the one it
\* signs with after it has replaced its key.  The key set it publishes after
\* the replacement holds both.
IssuerKeys == {"hydra", "hydra-new"}

\* The token tok is signed with a key of the key set a process holds; newKey
\* tells whether that set was fetched after the issuer replaced its key.
KeyKnown(tok, newKey) == tok.sig = "hydra" \/ (tok.sig = "hydra-new" /\ newKey)

\* What is wrong with a token, if anything.
Genuine(tok) ==
    /\ tok.auth
    /\ tok.form = "compact"
    /\ tok.sig \in IssuerKeys
    /\ tok.payload = "object"
    /\ tok.iss = "hydra"
    /\ ~tok.expired

\* jose jwtVerify(token, jwks, {issuer}), called by verifyToken of the Node
\* service: the code of the error it throws, or "ok".  keys tells whether the
\* remote key set could be obtained.  The compact form is parsed before the
\* key is looked up; then the signature, the payload, the issuer, the expiry.
\* A token signed with a key that the key set does not hold has no matching
\* key.
jwtVerify(tok, keys, newKey) ==
    IF tok.form # "compact" THEN "ERR_JWS_INVALID"
    ELSE IF ~keys THEN "ERR_JWKS_TIMEOUT"
    ELSE IF tok.sig \in IssuerKeys /\ ~KeyKnown(tok, newKey)
    THEN "ERR_JWKS_NO_MATCHING_KEY"
    ELSE IF tok.sig \notin IssuerKeys THEN "ERR_JWS_SIGNATURE_VERIFICATION_FAILED"
    ELSE IF tok.payload # "object" THEN "ERR_JWT_INVALID"
    ELSE IF tok.iss # "hydra" THEN "ERR_JWT_CLAIM_VALIDATION_FAILED"
    ELSE IF tok.expired THEN "ERR_JWT_EXPIRED"
    ELSE "ok"

\* Nimbus jwtProcessor.process(token, null) inside verifyToken of the Java
\* service: TRUE when it returns the claims, FALSE when it throws.  The key
\* set is the immutable one loaded at start.
jwtProcessorProcess(tok, newKey) ==
    /\ tok.form = "compact"
    /\ KeyKnown(tok, newKey)
    /\ tok.payload = "object"
    /\ tok.iss = "hydra"
    /\ ~tok.expired


-----------------------------------------------------------------------------
(* The state.                                                                *)

VARIABLES
    votes,    \* votes[i]: the in-memory vote list of process i
    proc,     \* proc[i]: up (serving requests), jwks (key-set cache object
              \* created), keys (verification keys held by the cache), and
              \* newKey (the keys held were fetched after the issuer
              \* replaced its key), cooling (the cache object fetched its
              \* keys less than the cooldown ago), and what an observer
              \* counts since the process started: made (cache objects
              \* created) and fetches (fetches of the key set, up to
              \* MaxFetches)
    reqs,     \* reqs[r]: the r-th POST /vote of the behaviour and its answer:
              \* st (idle, verifying, done, dropped), the process inst, the
              \* token, the parsed body, the status and the vote answered, and
              \* what an observer notes: code (how the verification ended),
              \* live (answered by the process that is still running), conc
              \* (the requests of inst in verification when this one arrived)
              \* and fresh (inst held no vote of its pair when it arrived)
    lastGet,  \* the answer to a GET /votes/{electionId} that was just sent
    issuer,   \* the token issuer: rotated, it has replaced its signing key
    flows,    \* flows[f]: the f-th request to the login-consent service (or
              \* call of fetchWithRetry) of the behaviour: where its handler
              \* stands (st), its inputs, the locals the handler keeps across
              \* its awaits, its answer, and what an observer notes: called
              \* (the services the handler sent a request to)
    hydra     \* the login and consent challenges the Hydra admin API has
              \* accepted, with the body of the accept call

vars == <<votes, proc, reqs, lastGet, issuer, flows, hydra>>

\* The identifier a new vote gets (Math.random / UUID.randomUUID): some
\* non-empty text; nothing in the services depends on which.
VoteIds == {"some-id"}

\* new Date().toISOString() / new Date().toInstant().toString(): some
\* non-empty text.
Now == "some-instant"

NoVote == [id |-> "", electionId |-> Undefined, candidateId |-> Undefined,
           sub |-> "", votedAt |-> "", by |-> 0]

\* A variant of Vote that leaves the timestamp out.
VoteUnstamped(id, electionId, candidateId, sub, r) ==
    [id |-> id, electionId |-> electionId, candidateId |-> candidateId,
     sub |-> sub, votedAt |-> "", by |-> r]

\* The vote object of the handlers; by names the request that created it.
Vote(id, electionId, candidateId, sub, r) ==
    [id |-> id, electionId |-> electionId, candidateId |-> candidateId,
     sub |-> sub, votedAt |-> Now, by |-> r]

-----------------------------------------------------------------------------
(* The login-consent service: the Node service (services/login-consent) and  *)
(* the Java/Vert.x service (LoginConsentVerticle).  A handler keeps nothing  *)
(* but its locals; what it changes is the state of Hydra.  A handler is      *)
(* followed from one await to the next: each action is one attempt to reach  *)
(* Kratos or Hydra together with the code that runs on its outcome.          *)

\* Number of requests to the login-consent service (or calls of
\* fetchWithRetry) in one behaviour.  The handlers share no state: what one
\* request does never depends on another.
MaxFlows == 1

\* fetchWithRetry is called with maxRetries from 0 up to this number.
MaxRetries == 5

\* The default value of the parameter maxRetries of fetchWithRetry.
DefaultMaxRetries == 5

Flows == 1..MaxFlows

\* A URL or a part of one is a tuple of symbols: a punctuation character, or
\* a word that stands for its letters and digits.  These are the characters
\* that percent-encoding replaces.
Reserved == {"&", "=", "?", "/", ":", " ", "%", "+"}

\* The two hexadecimal digits of the code of a reserved character.
HexOf(ch) ==
    CASE ch = "&" -> <<"2", "6">>
      [] ch = "=" -> <<"3", "D">>
      [] ch = "?" -> <<"3", "F">>
      [] ch = "/" -> <<"2", "F">>
      [] ch = ":" -> <<"3", "A">>
      [] ch = " " -> <<"2", "0">>
      [] ch = "%" -> <<"2", "5">>
      [] ch = "+" -> <<"2", "B">>

\* The character with the code h; "?!" for digits that are no code here.
CharOf(h) ==
    IF \E ch \in Reserved : HexOf(ch) = h
    THEN CHOOSE ch \in Reserved : HexOf(ch) = h
    ELSE "?!"

\* A variant of encodeURIComponent that leaves its argument as it is.
NotEncoded(s) == s

\* JavaScript encodeURIComponent(s)
RECURSIVE encodeURIComponent(_)
encodeURIComponent(s) ==
    IF s = <<>> THEN <<>>
    ELSE (IF Head(s) \in Reserved THEN <<"%">> \o HexOf(Head(s)) ELSE <<Head(s)>>)
         \o encodeURIComponent(Tail(s))

\* URLEncoder.encode(value, StandardCharsets.UTF_8): as above, but a space
\* becomes "+".
RECURSIVE urlEncode(_)
urlEncode(value) ==
    IF value = <<>> THEN <<>>
    ELSE (IF Head(value) = " " THEN <<"+">>
          ELSE IF Head(value) \in Reserved THEN <<"%">> \o HexOf(Head(value))
          ELSE <<Head(value)>>)
         \o urlEncode(Tail(value))

\* How the receiver of a URL decodes a name or a value of its query (qs of
\* express, net/url of Go): "+" is a space, %XY the character with code XY.
RECURSIVE QueryDecode(_)
QueryDecode(s) ==
    IF s = <<>> THEN <<>>
    ELSE IF Head(s) = "%" /\ Len(s) >= 3
    THEN <<CharOf(<<s[2], s[3]>>)>> \o QueryDecode(SubSeq(s, 4, Len(s)))
    ELSE IF Head(s) = "+" THEN <<" ">> \o QueryDecode(Tail(s))
    ELSE <<Head(s)>> \o QueryDecode(Tail(s))

\* The part of s before, and after, the first ch.
RECURSIVE Before(_, _)
Before(s, ch) ==
    IF s = <<>> THEN <<>>
    ELSE IF Head(s) = ch THEN <<>>
    ELSE <<Head(s)>> \o Before(Tail(s), ch)

RECURSIVE After(_, _)
After(s, ch) ==
    IF s = <<>> THEN <<>>
    ELSE IF Head(s) = ch THEN Tail(s)
    ELSE After(Tail(s), ch)

\* A query parameter: absent, or its decoded value.
NoParam == [present |-> FALSE, v |-> <<>>]
Param(v) == [present |-> TRUE, v |-> v]

\* req.query[name] / ctx.queryParam(name) of a query string.
RECURSIVE ParamOf(_, _)
ParamOf(query, name) ==
    IF query = <<>> THEN NoParam
    ELSE LET first == Before(query, "&")
         IN  IF QueryDecode(Before(first, "=")) = name
             THEN Param(QueryDecode(After(first, "=")))
             ELSE ParamOf(After(query, "&"), name)

QueryParam(url, name) == ParamOf(After(url, "?"), name)

\* The part of a URL before its query.
WithoutQuery(url) == Before(url, "?")

LOGIN_CHALLENGE == <<"login_challenge">>
CONSENT_CHALLENGE == <<"consent_challenge">>
RETURN_TO == <<"return_to">>

HYDRA_ADMIN_URL == <<"http", ":", "/", "/", "hydra", ":", "4445">>
KRATOS_PUBLIC_URL == <<"http", ":", "/", "/", "kratos", ":", "4433">>
KRATOS_UI_URL == <<"http", ":", "/", "/", "localhost", ":", "4455">>

\* req.protocol://req.get('host') / scheme://host of a request that the
\* browser sent to the service: port 3000 (Node) or 3001 (Java).
Origin(i) ==
    <<"http", ":", "/", "/", "localhost", ":", IF i = "node" THEN "3000" ELSE "3001">>

\* req.path / ctx.request().path() of GET /login
LoginPath == <<"/", "login">>

-----------------------------------------------------------------------------
(* Kratos and Hydra, as the login-consent service sees them.                 *)

\* The Cookie header of a request: none, the cookie of the session of an
\* identity with an email trait (alice) or without one (bob), and the cookie
\* of a session whose identity carries no id.
Cookies == {"", "alice-session", "bob-session", "anonymous-session"}

Identity(id, email) == [present |-> TRUE, id |-> id, email |-> email]
NoIdentity == [present |-> FALSE, id |-> Undefined, email |-> Undefined]

\* GET /sessions/whoami of Kratos: 200 with the session of the cookie, 401
\* without an active session.
KratosWhoami(cookie) ==
    CASE cookie = "alice-session" ->
           [status |-> 200, identity |-> Identity(Str("id-alice"), Str("alice@example.com"))]
      [] cookie = "bob-session" ->
           [status |-> 200, identity |-> Identity(Str("id-bob"), Undefined)]
      [] cookie = "anonymous-session" ->
           [status |-> 200, identity |-> Identity(Undefined, Undefined)]
      [] OTHER -> [status |-> 401, identity |-> NoIdentity]

\* The login challenges Hydra has issued and waits for; any other challenge
\* is unknown to it.
HydraLoginChallenges == {<<"l", "&", "2">>, <<"l", " ", "3">>}

\* The requested scopes of the consent requests Hydra has issued; one of
\* them comes without requested_scope.
NoList == [present |-> FALSE, l |-> <<>>]
List(l) == [present |-> TRUE, l |-> l]

HydraConsentChallenges == {<<"k", "&", "1">>, <<"k2">>}

HydraRequestedScope(challenge) ==
    IF challenge = <<"k", "&", "1">> THEN List(<<"openid", "vote:cast">>) ELSE NoList

\* redirect_to of an accepted challenge: where Hydra continues the flow.
HydraRedirectTo(challenge) == <<"hydra-continues">> \o challenge

\* What one attempt to reach a service can end in: no response (the
\* connection fails or times out), a response of the service, or the
\* response 503 of a service that cannot serve.
Outcomes == {"throw", "serve", "unavailable"}

\* The statuses of the responses that a call of fetch can return.
Statuses == {200, 302, 401, 404, 500, 503}

NoReply == [status |-> 0, identity |-> NoIdentity, scope |-> NoList, redirect_to |-> <<>>]

\* The response to GET /sessions/whoami sent with cookie.
WhoamiReply(out, cookie) ==
    IF out = "serve"
    THEN [NoReply EXCEPT !.status = KratosWhoami(cookie).status,
                         !.identity = KratosWhoami(cookie).identity]
    ELSE [NoReply EXCEPT !.status = 503]

\* The response to PUT .../requests/login/accept?login_challenge=...
AcceptLoginReply(out, url) ==
    LET challenge == QueryParam(url, LOGIN_CHALLENGE)
    IN  IF out # "serve" THEN [NoReply EXCEPT !.status = 503]
        ELSE IF challenge.present /\ challenge.v \in HydraLoginChallenges
        THEN [NoReply EXCEPT !.status = 200, !.redirect_to = HydraRedirectTo(challenge.v)]
        ELSE [NoReply EXCEPT !.status = 404]

\* The response to GET .../requests/consent?consent_challenge=...
ConsentRequestReply(out, url) ==
    LET challenge == QueryParam(url, CONSENT_CHALLENGE)
    IN  IF out # "serve" THEN [NoReply EXCEPT !.status = 503]
        ELSE IF challenge.present /\ challenge.v \in HydraConsentChallenges
        THEN [NoReply EXCEPT !.status = 200, !.scope = HydraRequestedScope(challenge.v)]
        ELSE [NoReply EXCEPT !.status = 404]

\* The response to PUT .../requests/consent/accept?consent_challenge=...
AcceptConsentReply(out, url) ==
    LET challenge == QueryParam(url, CONSENT_CHALLENGE)
    IN  IF out # "serve" THEN [NoReply EXCEPT !.status = 503]
        ELSE IF challenge.present /\ challenge.v \in HydraConsentChallenges
        THEN [NoReply EXCEPT !.status = 200, !.redirect_to = HydraRedirectTo(challenge.v)]
        ELSE [NoReply EXCEPT !.status = 404]

\* Response.ok of fetch: the status is in the range 200-299.
Ok(res) == res.status >= 200 /\ res.status <= 299

-----------------------------------------------------------------------------
(* The handlers of the login-consent service.                                *)

NoIdToken == [email |-> Undefined]

IdleFlow ==
    [st |-> "idle", inst |-> "", kind |-> "", challenge |-> NoParam, cookie |-> "",
     i |-> 0, maxRetries |-> 0, subject |-> Undefined, scope |-> NoList,
     idToken |-> NoIdToken, status |-> 0, location |-> <<>>,
     result |-> [t |-> "none", status |-> 0, at |-> 0], attempts |-> 0, threw |-> 0,
     called |-> {}, answered |-> {}, whoami |-> 0]

NoAccepts == [logins |-> {}, consents |-> {}]

\* A variant of fetchWithRetry that also tries again after a response of a
\* service that cannot serve.
fetchWithRetryOnStatus(i, maxRetries, out) ==
    IF out = "serve" THEN "return"
    ELSE IF i = maxRetries - 1 THEN (IF out = "throw" THEN "throw" ELSE "return")
    ELSE "retry"

\* A variant of fetchWithRetry that gives up one iteration late.
fetchWithRetryOneMore(i, maxRetries, out) ==
    IF out # "throw" THEN "return"
    ELSE IF i = maxRetries THEN "throw"
    ELSE "retry"

\* One iteration of the loop of fetchWithRetry, with loop variable i: the
\* attempt returns the response, or it throws, and then the error is thrown
\* on when this was the last iteration and the loop goes on otherwise.
fetchWithRetry(i, maxRetries, out) ==
    IF out # "throw" THEN "return"
    ELSE IF i = maxRetries - 1 THEN "throw"
    ELSE "retry"

\* The handler answers: res.status(status) with a body, or a redirect.
Answer(fl, status, location) ==
    [fl EXCEPT !.st = "done", !.status = status, !.location = location]

\* `${origin}${path}?login_challenge=${encodeURIComponent(challenge)}`
NodeReturnTo(i, challenge) ==
    Origin(i) \o LoginPath \o <<"?">> \o LOGIN_CHALLENGE \o <<"=">>
    \o encodeURIComponent(challenge)

\* A variant of NodeKratosRedirect that puts returnTo into the URL as it is.
NodeKratosRedirectPlain(i, challenge) ==
    KRATOS_UI_URL \o <<"/", "login", "?">> \o RETURN_TO \o <<"=">>
    \o NotEncoded(NodeReturnTo(i, challenge))

\* `${KRATOS_UI_URL}/login?return_to=${encodeURIComponent(returnTo)}`
NodeKratosRedirect(i, challenge) ==
    KRATOS_UI_URL \o <<"/", "login", "?">> \o RETURN_TO \o <<"=">>
    \o encodeURIComponent(NodeReturnTo(i, challenge))

\* The same two URLs of handleLogin, built with urlEncode.
JavaReturnTo(i, challenge) ==
    Origin(i) \o LoginPath \o <<"?">> \o LOGIN_CHALLENGE \o <<"=">> \o urlEncode(challenge)

JavaKratosRedirect(i, challenge) ==
    KRATOS_UI_URL \o <<"/", "login", "?">> \o RETURN_TO \o <<"=">>
    \o urlEncode(JavaReturnTo(i, challenge))

AdminRequests == <<"/", "admin", "/", "oauth2", "/", "auth", "/", "requests">>

\* The URLs of the calls to the Hydra admin API; encode is the encoding
\* function of the service.
AcceptLoginUrl(encoded) ==
    HYDRA_ADMIN_URL \o AdminRequests \o <<"/", "login", "/", "accept", "?">>
    \o LOGIN_CHALLENGE \o <<"=">> \o encoded

ConsentRequestUrl(encoded) ==
    HYDRA_ADMIN_URL \o AdminRequests \o <<"/", "consent", "?">>
    \o CONSENT_CHALLENGE \o <<"=">> \o encoded

AcceptConsentUrl(encoded) ==
    HYDRA_ADMIN_URL \o AdminRequests \o <<"/", "consent", "/", "accept", "?">>
    \o CONSENT_CHALLENGE \o <<"=">> \o encoded

\* Hydra records an accepted login challenge with the body of the call.
AcceptLogin(h, url, subject, f) ==
    [h EXCEPT !.logins = @ \cup
        {[challenge |-> QueryParam(url, LOGIN_CHALLENGE).v, subject |-> subject,
          remember |-> TRUE, remember_for |-> 3600, by |-> f]}]

\* Hydra records an accepted consent challenge with the body of the call.
AcceptConsent(h, url, grant_scope, idToken, f) ==
    [h EXCEPT !.consents = @ \cup
        {[challenge |-> QueryParam(url, CONSENT_CHALLENGE).v,
          grant_scope |-> grant_scope, remember |-> TRUE, remember_for |-> 3600,
          id_token |-> idToken, access_token |-> {}, by |-> f]}]

\* A variant of NodeIdentityId that makes up a subject when the session has
\* none.
NodeIdentityIdOrGuest(whoami) ==
    IF whoami.identity.present /\ whoami.identity.id.t = "string"
    THEN whoami.identity.id
    ELSE Str("guest")

\* data.identity?.id
NodeIdentityId(whoami) ==
    IF whoami.identity.present THEN whoami.identity.id ELSE Undefined

\* GET /login of the Node service after whoami has returned: an OK whoami
\* with an identity id leads to the accept call, one without an id throws
\* (500), and any other response redirects to the Kratos UI.
NodeLoginOnWhoami(fl, whoami) ==
    LET subject == NodeIdentityId(whoami)
    IN  IF Ok(whoami)
        THEN IF ~Truthy(subject) THEN Answer(fl, 500, <<>>)
             ELSE [fl EXCEPT !.st = "accept", !.i = 0, !.subject = subject]
        ELSE Answer(fl, 302, NodeKratosRedirect(fl.inst, fl.challenge.v))

\* GET /login of the Node service after the accept call has returned.
NodeLoginOnAccept(fl, acceptRes) ==
    IF ~Ok(acceptRes) THEN Answer(fl, 500, <<>>)
    ELSE Answer(fl, 302, acceptRes.redirect_to)

\* checkKratosSession: the session data, or null (present is FALSE) when the
\* call fails, the status is not 200 or the identity has no id.
checkKratosSession(out, cookie) ==
    LET response == WhoamiReply(out, cookie)
    IN  IF out # "throw" /\ response.status = 200 /\ response.identity.present
           /\ getString(response.identity.id).t # "null"
        THEN [present |-> TRUE, identity_id |-> getString(response.identity.id)]
        ELSE [present |-> FALSE, identity_id |-> NullString]

\* handleLogin after checkKratosSession: the accept call with the identity
\* id as subject, or the redirect to the Kratos UI.
handleLogin(fl, sessionData) ==
    IF sessionData.present
    THEN [fl EXCEPT !.st = "accept", !.subject = sessionData.identity_id]
    ELSE Answer(fl, 302, JavaKratosRedirect(fl.inst, fl.challenge.v))

\* acceptLoginChallenge and the handlers of its future: the redirect to
\* redirect_to on status 200, else 500.
acceptLoginChallenge(fl, out, response) ==
    IF out # "throw" /\ response.status = 200
    THEN Answer(fl, 302, response.redirect_to)
    ELSE Answer(fl, 500, <<>>)

\* A variant of NodeGrantScope that always grants the scope vote:cast too.
NodeGrantScopeAndVote(scope) ==
    (IF scope.present THEN scope.l ELSE <<>>) \o <<"vote:cast">>

\* cr.requested_scope || []
NodeGrantScope(scope) == IF scope.present THEN scope.l ELSE <<>>

\* requestedScope != null ? requestedScope : new JsonArray()
JavaGrantScope(requestedScope) ==
    IF requestedScope.present THEN requestedScope.l ELSE <<>>

\* A variant of NodeIdToken that never adds the email claim.
NodeIdTokenNoEmail(whoami) == NoIdToken

\* The id_token claims of GET /consent of the Node service: the email trait
\* when whoami is OK and the trait is truthy.
NodeIdToken(whoami) ==
    IF Ok(whoami) /\ whoami.identity.present /\ Truthy(whoami.identity.email)
    THEN [email |-> whoami.identity.email]
    ELSE NoIdToken

\* getIdentityTraits: the email trait when the status is 200 and the traits
\* contain the key; the empty object when the call fails.
getIdentityTraits(out, cookie) ==
    LET response == WhoamiReply(out, cookie)
    IN  IF out # "throw" /\ response.status = 200 /\ response.identity.present
           /\ response.identity.email.t # "undefined"
        THEN [email |-> getString(response.identity.email)]
        ELSE NoIdToken

\* Notes that the handler sent a request to a service.
Sent(fl, service) == [fl EXCEPT !.called = @ \cup {service}]

\* The number of responses to its call op that the handler has received.
Replies(fl, op) == Cardinality({a \in fl.answered : a[1] = op})

\* Notes a response res to the call op of the handler: which response of the
\* call it is, and its status.
Got(fl, op, res) ==
    [fl EXCEPT !.answered = @ \cup {<<op, Replies(fl, op) + 1, res.status>>},
               !.whoami = IF op = "whoami" THEN res.status ELSE @]

\* Notes one attempt of the call op to a service: the request sent and, when
\* the attempt does not throw, the response res.
Attempted(fl, service, op, out, res) ==
    IF out = "throw" THEN Sent(fl, service) ELSE Got(Sent(fl, service), op, res)

\* The loop of fetchWithRetry goes on after a failed attempt; when its
\* condition i < maxRetries is false the function returns undefined.
Retried(fl) == [fl EXCEPT !.i = @ + 1]

\* A variant of NodeMissing that is true of an empty parameter only.
NodeMissingOnlyEmpty(challenge) == challenge.present /\ challenge.v = <<>>

\* !challenge of the Node handlers: the parameter is absent or empty.
NodeMissing(challenge) == ~challenge.present \/ challenge.v = <<>>

\* challenge == null of the Java handlers: the parameter is absent.
JavaMissing(challenge) == ~challenge.present

\* A request arrives at service i: the handler answers 400 when the
\* challenge is missing, and else sends its first request.
Receive(f, i, kind, challenge, cookie, first) ==
    LET fl == [IdleFlow EXCEPT !.inst = i, !.kind = kind, !.challenge = challenge,
                               !.cookie = cookie,
                               !.maxRetries = IF i = "node" THEN DefaultMaxRetries ELSE 0]
        missing == IF i = "node" THEN NodeMissing(challenge) ELSE JavaMissing(challenge)
    IN  /\ flows[f].st = "idle"
        /\ IF f = 1 THEN TRUE ELSE flows[f - 1].st # "idle"
        /\ flows' = [flows EXCEPT ![f] =
              IF missing THEN Answer(fl, 400, <<>>) ELSE [fl EXCEPT !.st = first]]
        /\ UNCHANGED <<hydra, votes, proc, reqs, lastGet, issuer>>

\* GET /login
ReceiveLogin(f, i, challenge, cookie) ==
    Receive(f, i, "login", challenge, cookie, "whoami")

\* GET /consent
ReceiveConsent(f, i, challenge, cookie) ==
    Receive(f, i, "consent", challenge, cookie, "getConsent")

\* What a Node handler does with one attempt of fetchWithRetry that ended in
\* out: it goes on with the response (returned), it goes on with the error
\* thrown (thrown), or it waits for the next attempt.  A call that returns
\* undefined makes the handler throw when it reads the status.
NodeAttempt(fl, out, returned, thrown) ==
    LET step == fetchWithRetry(fl.i, fl.maxRetries, out)
    IN  IF step = "return" THEN returned
        ELSE IF step = "throw" THEN thrown
        ELSE IF fl.i + 1 < fl.maxRetries THEN Retried(fl)
        ELSE thrown

\* GET /login of the Node service: an attempt of the whoami call.
NodeLoginWhoami(f, out) ==
    LET whoami == WhoamiReply(out, flows[f].cookie)
        fl     == Attempted(flows[f], "kratos", "whoami", out, whoami)
    IN  /\ flows[f].st = "whoami" /\ flows[f].kind = "login" /\ flows[f].inst = "node"
        /\ flows' = [flows EXCEPT ![f] =
              NodeAttempt(fl, out, NodeLoginOnWhoami(fl, whoami), Answer(fl, 500, <<>>))]
        /\ UNCHANGED <<hydra, votes, proc, reqs, lastGet, issuer>>

\* GET /login of the Node service: an attempt of the accept call.
NodeLoginAccept(f, out) ==
    LET url       == AcceptLoginUrl(encodeURIComponent(flows[f].challenge.v))
        acceptRes == AcceptLoginReply(out, url)
        fl        == Attempted(flows[f], "hydra", "accept", out, acceptRes)
    IN  /\ flows[f].st = "accept" /\ flows[f].kind = "login" /\ flows[f].inst = "node"
        /\ flows' = [flows EXCEPT ![f] =
              NodeAttempt(fl, out, NodeLoginOnAccept(fl, acceptRes), Answer(fl, 500, <<>>))]
        /\ hydra' = IF out # "throw" /\ acceptRes.status = 200
                    THEN AcceptLogin(hydra, url, fl.subject, f)
                    ELSE hydra
        /\ UNCHANGED <<votes, proc, reqs, lastGet, issuer>>

\* GET /login of the Java service: the whoami call settles.
JavaLoginWhoami(f, out) ==
    LET fl == Attempted(flows[f], "kratos", "whoami", out, WhoamiReply(out, flows[f].cookie))
    IN  /\ flows[f].st = "whoami" /\ flows[f].kind = "login" /\ flows[f].inst = "java"
        /\ flows' = [flows EXCEPT ![f] =
              handleLogin(fl, checkKratosSession(out, fl.cookie))]
        /\ UNCHANGED <<hydra, votes, proc, reqs, lastGet, issuer>>

\* GET /login of the Java service: the accept call settles.
JavaLoginAccept(f, out) ==
    LET url      == AcceptLoginUrl(urlEncode(flows[f].challenge.v))
        response == AcceptLoginReply(out, url)
        fl       == Attempted(flows[f], "hydra", "accept", out, response)
    IN  /\ flows[f].st = "accept" /\ flows[f].kind = "login" /\ flows[f].inst = "java"
        /\ flows' = [flows EXCEPT ![f] = acceptLoginChallenge(fl, out, response)]
        /\ hydra' = IF out # "throw" /\ response.status = 200
                    THEN AcceptLogin(hydra, url, fl.subject, f)
                    ELSE hydra
        /\ UNCHANGED <<votes, proc, reqs, lastGet, issuer>>

\* GET /consent of the Node service: an attempt to fetch the consent
\* request; a response that is not OK throws (500).
NodeConsentGet(f, out) ==
    LET crRes == ConsentRequestReply(out,
                     ConsentRequestUrl(encodeURIComponent(flows[f].challenge.v)))
        fl    == Attempted(flows[f], "hydra", "getConsent", out, crRes)
    IN  /\ flows[f].st = "getConsent" /\ flows[f].inst = "node"
        /\ flows' = [flows EXCEPT ![f] =
              NodeAttempt(fl, out,
                  IF ~Ok(crRes) THEN Answer(fl, 500, <<>>)
                  ELSE [fl EXCEPT !.st = "traits", !.i = 0, !.scope = crRes.scope],
                  Answer(fl, 500, <<>>))]
        /\ UNCHANGED <<hydra, votes, proc, reqs, lastGet, issuer>>

\* GET /consent of the Node service: an attempt of the whoami call, inside
\* its own try block: an error leaves idToken empty.
NodeConsentWhoami(f, out) ==
    LET whoami == WhoamiReply(out, flows[f].cookie)
        fl     == Attempted(flows[f], "kratos", "whoami", out, whoami)
    IN  /\ flows[f].st = "traits" /\ flows[f].inst = "node"
        /\ flows' = [flows EXCEPT ![f] =
              NodeAttempt(fl, out,
                  [fl EXCEPT !.st = "consentAccept", !.i = 0,
                             !.idToken = NodeIdToken(whoami)],
                  [fl EXCEPT !.st = "consentAccept", !.i = 0])]
        /\ UNCHANGED <<hydra, votes, proc, reqs, lastGet, issuer>>

\* GET /consent of the Node service: an attempt of the accept call.
NodeConsentAccept(f, out) ==
    LET url       == AcceptConsentUrl(encodeURIComponent(flows[f].challenge.v))
        acceptRes == AcceptConsentReply(out, url)
        fl        == Attempted(flows[f], "hydra", "accept", out, acceptRes)
    IN  /\ flows[f].st = "consentAccept" /\ flows[f].inst = "node"
        /\ flows' = [flows EXCEPT ![f] =
              NodeAttempt(fl, out,
                  IF ~Ok(acceptRes) THEN Answer(fl, 500, <<>>)
                  ELSE Answer(fl, 302, acceptRes.redirect_to),
                  Answer(fl, 500, <<>>))]
        /\ hydra' = IF out # "throw" /\ acceptRes.status = 200
                    THEN AcceptConsent(hydra, url, NodeGrantScope(fl.scope), fl.idToken, f)
                    ELSE hydra
        /\ UNCHANGED <<votes, proc, reqs, lastGet, issuer>>

\* GET /consent of the Java service: getConsentRequest settles; any status
\* but 200 and any failure fail the future (500).
JavaConsentGet(f, out) ==
    LET response == ConsentRequestReply(out,
                        ConsentRequestUrl(urlEncode(flows[f].challenge.v)))
        fl       == Attempted(flows[f], "hydra", "getConsent", out, response)
    IN  /\ flows[f].st = "getConsent" /\ flows[f].inst = "java"
        /\ flows' = [flows EXCEPT ![f] =
              IF out # "throw" /\ response.status = 200
              THEN [fl EXCEPT !.st = "traits", !.scope = response.scope]
              ELSE Answer(fl, 500, <<>>)]
        /\ UNCHANGED <<hydra, votes, proc, reqs, lastGet, issuer>>

\* GET /consent of the Java service: getIdentityTraits settles.
JavaConsentWhoami(f, out) ==
    LET fl == Attempted(flows[f], "kratos", "whoami", out, WhoamiReply(out, flows[f].cookie))
    IN  /\ flows[f].st = "traits" /\ flows[f].inst = "java"
        /\ flows' = [flows EXCEPT ![f] =
              [fl EXCEPT !.st = "consentAccept",
                         !.idToken = getIdentityTraits(out, fl.cookie)]]
        /\ UNCHANGED <<hydra, votes, proc, reqs, lastGet, issuer>>

\* GET /consent of the Java service: acceptConsentChallenge settles.
JavaConsentAccept(f, out) ==
    LET url      == AcceptConsentUrl(urlEncode(flows[f].challenge.v))
        response == AcceptConsentReply(out, url)
        fl       == Attempted(flows[f], "hydra", "accept", out, response)
    IN  /\ flows[f].st = "consentAccept" /\ flows[f].inst = "java"
        /\ flows' = [flows EXCEPT ![f] =
              IF out # "throw" /\ response.status = 200
              THEN Answer(fl, 302, response.redirect_to)
              ELSE Answer(fl, 500, <<>>)]
        /\ hydra' = IF out # "throw" /\ response.status = 200
                    THEN AcceptConsent(hydra, url, JavaGrantScope(fl.scope), fl.idToken, f)
                    ELSE hydra
        /\ UNCHANGED <<votes, proc, reqs, lastGet, issuer>>

\* fetchWithRetry(url, options, maxRetries) is called: with maxRetries < 1
\* the loop body never runs and the function returns undefined.
CallFetchWithRetry(f, maxRetries) ==
    LET fl == [IdleFlow EXCEPT !.inst = "node", !.kind = "fetch", !.maxRetries = maxRetries]
    IN  /\ flows[f].st = "idle"
        /\ IF f = 1 THEN TRUE ELSE flows[f - 1].st # "idle"
        /\ flows' = [flows EXCEPT ![f] =
              IF 0 < maxRetries THEN [fl EXCEPT !.st = "fetching"]
              ELSE [fl EXCEPT !.st = "done",
                              !.result = [t |-> "undefined", status |-> 0, at |-> 0]]]
        /\ UNCHANGED <<hydra, votes, proc, reqs, lastGet, issuer>>

\* One iteration of the loop of fetchWithRetry: the attempt throws, or it
\* resolves with a response of some status.  The result names the attempt
\* whose response is returned or whose error is thrown.
FetchAttempt(f, out, status) ==
    LET fl   == [flows[f] EXCEPT !.attempts = @ + 1,
                                 !.threw = IF out = "throw" THEN @ + 1 ELSE @]
        step == fetchWithRetry(fl.i, fl.maxRetries, out)
    IN  /\ flows[f].st = "fetching"
        /\ (out = "throw") = (status = 0)
        /\ flows' = [flows EXCEPT ![f] =
              IF step = "return"
              THEN [fl EXCEPT !.st = "done",
                              !.result = [t |-> "response", status |-> status,
                                          at |-> fl.i + 1]]
              ELSE IF step = "throw"
              THEN [fl EXCEPT !.st = "done",
                              !.result = [t |-> "error", status |-> 0, at |-> fl.i + 1]]
              ELSE IF fl.i + 1 < fl.maxRetries THEN Retried(fl)
              ELSE [Retried(fl) EXCEPT !.st = "done",
                                       !.result = [t |-> "undefined", status |-> 0,
                                                   at |-> 0]]]
        /\ UNCHANGED <<hydra, votes, proc, reqs, lastGet, issuer>>

-----------------------------------------------------------------------------
(* POST /vote of the Node service, after verifyToken has returned payload.   *)

\* (payload.scope || '').split(' '): ok is FALSE when the call throws
\* (a truthy scope claim that is not a string has no split method).
NodeScopes(tok) ==
    IF tok.scope.t = "string" THEN [ok |-> TRUE, list |-> Split(tok.scope.s)]
    ELSE IF tok.scope.t = "undefined" THEN [ok |-> TRUE, list |-> Split(<<>>)]
    ELSE [ok |-> FALSE, list |-> <<>>]

\* A variant of NodeExisting that joins the two comparisons with || .
NodeExistingEither(vs, electionId, sub) ==
    \E k \in 1..Len(vs) :
        StrictEquals(vs[k].electionId, electionId) \/ vs[k].sub = sub

\* votes.find(v => v.electionId === electionId && v.sub === sub)
NodeExisting(vs, electionId, sub) ==
    \E k \in 1..Len(vs) :
        StrictEquals(vs[k].electionId, electionId) /\ vs[k].sub = sub

\* A variant of NodeHandleVote that looks for an existing vote of the same
\* candidate too.
NodeHandleVotePerCandidate(tok, body, vs, r, id) ==
    LET scopes == NodeScopes(tok)
        vote   == Vote(id, body.electionId, body.candidateId, tok.sub, r)
    IN  IF ~scopes.ok THEN [status |-> 500, votes |-> vs, vote |-> NoVote]
        ELSE IF ~Includes(scopes.list, REQUIRED_SCOPE)
        THEN [status |-> 403, votes |-> vs, vote |-> NoVote]
        ELSE IF ~Truthy(body.electionId) \/ ~Truthy(body.candidateId)
        THEN [status |-> 400, votes |-> vs, vote |-> NoVote]
        ELSE IF \E k \in 1..Len(vs) :
                   /\ StrictEquals(vs[k].electionId, body.electionId)
                   /\ StrictEquals(vs[k].candidateId, body.candidateId)
                   /\ vs[k].sub = tok.sub
        THEN [status |-> 409, votes |-> vs, vote |-> NoVote]
        ELSE [status |-> 201, votes |-> Append(vs, vote), vote |-> vote]

\* A variant of NodeHandleVote that takes the voter from the voterId field
\* of the body when the client sent one.
NodeHandleVoteClientIdentity(tok, body, vs, r, id) ==
    LET scopes == NodeScopes(tok)
        sub    == IF Truthy(body.voterId) THEN body.voterId.v ELSE tok.sub
        vote   == Vote(id, body.electionId, body.candidateId, sub, r)
    IN  IF ~scopes.ok THEN [status |-> 500, votes |-> vs, vote |-> NoVote]
        ELSE IF ~Includes(scopes.list, REQUIRED_SCOPE)
        THEN [status |-> 403, votes |-> vs, vote |-> NoVote]
        ELSE IF ~Truthy(body.electionId) \/ ~Truthy(body.candidateId)
        THEN [status |-> 400, votes |-> vs, vote |-> NoVote]
        ELSE IF NodeExisting(vs, body.electionId, sub)
        THEN [status |-> 409, votes |-> vs, vote |-> NoVote]
        ELSE [status |-> 201, votes |-> Append(vs, vote), vote |-> vote]

\* The rest of the handler: the status it answers, the vote list it leaves
\* and the vote of the response body.
\* A variant of NodeHandleVote that records the vote before it looks for an
\* earlier one.
NodeHandleVoteRecordsFirst(tok, body, vs, r, id) ==
    LET scopes == NodeScopes(tok)
        vote   == Vote(id, body.electionId, body.candidateId, tok.sub, r)
    IN  IF ~scopes.ok THEN [status |-> 500, votes |-> vs, vote |-> NoVote]
        ELSE IF ~Includes(scopes.list, REQUIRED_SCOPE)
        THEN [status |-> 403, votes |-> vs, vote |-> NoVote]
        ELSE IF ~Truthy(body.electionId) \/ ~Truthy(body.candidateId)
        THEN [status |-> 400, votes |-> vs, vote |-> NoVote]
        ELSE IF NodeExisting(vs, body.electionId, tok.sub)
        THEN [status |-> 409, votes |-> Append(vs, vote), vote |-> NoVote]
        ELSE [status |-> 201, votes |-> Append(vs, vote), vote |-> vote]

NodeHandleVote(tok, body, vs, r, id) ==
    LET scopes == NodeScopes(tok)
        vote   == Vote(id, body.electionId, body.candidateId, tok.sub, r)
    IN  IF ~scopes.ok THEN [status |-> 500, votes |-> vs, vote |-> NoVote]
        ELSE IF ~Includes(scopes.list, REQUIRED_SCOPE)
        THEN [status |-> 403, votes |-> vs, vote |-> NoVote]
        ELSE IF ~Truthy(body.electionId) \/ ~Truthy(body.candidateId)
        THEN [status |-> 400, votes |-> vs, vote |-> NoVote]
        ELSE IF NodeExisting(vs, body.electionId, tok.sub)
        THEN [status |-> 409, votes |-> vs, vote |-> NoVote]
        ELSE [status |-> 201, votes |-> Append(vs, vote), vote |-> vote]

\* The catch block of the handler: only ERR_JWT_INVALID is answered 401.
NodeCatch(code) == IF code = "ERR_JWT_INVALID" THEN 401 ELSE 500

-----------------------------------------------------------------------------
(* processVote of the Java service.                                          *)

\* extractScopes: the scope string split on spaces, else the scp list, else
\* (also when reading a claim throws) the empty list.
extractScopes(tok) ==
    IF tok.scope.t = "string" THEN Split(tok.scope.s)
    ELSE IF tok.scope.t # "undefined" THEN <<>>
    ELSE IF tok.scp.t = "array" THEN tok.scp.l
    ELSE <<>>

\* A variant of alreadyVoted that compares the sub of a vote with the
\* electionId of the request.
alreadyVotedWrongField(vs, electionId, sub) ==
    \E k \in 1..Len(vs) :
        vs[k].electionId.v = electionId.v /\ vs[k].sub = electionId.v

\* votes.stream().anyMatch(v -> electionId and sub are equal strings)
alreadyVoted(vs, electionId, sub) ==
    \E k \in 1..Len(vs) :
        vs[k].electionId.v = electionId.v /\ vs[k].sub = sub

\* A variant of processVote that replaces the vote of a pair that has one.
processVoteUpsert(tok, body, vs, r, id) ==
    LET electionId  == getString(body.electionId)
        candidateId == getString(body.candidateId)
        vote        == Vote(id, electionId, candidateId, tok.sub, r)
    IN  IF ~Includes(extractScopes(tok), REQUIRED_SCOPE)
        THEN [status |-> 403, votes |-> vs, vote |-> NoVote]
        ELSE IF ~body.present
        THEN [status |-> 400, votes |-> vs, vote |-> NoVote]
        ELSE IF electionId = NullString \/ candidateId = NullString
        THEN [status |-> 400, votes |-> vs, vote |-> NoVote]
        ELSE IF alreadyVoted(vs, electionId, tok.sub)
        THEN [status |-> 201,
              votes |-> [k \in 1..Len(vs) |->
                           IF vs[k].electionId.v = electionId.v /\ vs[k].sub = tok.sub
                           THEN vote ELSE vs[k]],
              vote |-> vote]
        ELSE [status |-> 201, votes |-> Append(vs, vote), vote |-> vote]

\* A variant of processVote that stores the new vote in place of the list.
processVoteKeepsLast(tok, body, vs, r, id) ==
    LET electionId  == getString(body.electionId)
        candidateId == getString(body.candidateId)
        vote        == Vote(id, electionId, candidateId, tok.sub, r)
    IN  IF ~Includes(extractScopes(tok), REQUIRED_SCOPE)
        THEN [status |-> 403, votes |-> vs, vote |-> NoVote]
        ELSE IF ~body.present
        THEN [status |-> 400, votes |-> vs, vote |-> NoVote]
        ELSE IF electionId = NullString \/ candidateId = NullString
        THEN [status |-> 400, votes |-> vs, vote |-> NoVote]
        ELSE IF alreadyVoted(vs, electionId, tok.sub)
        THEN [status |-> 409, votes |-> vs, vote |-> NoVote]
        ELSE [status |-> 201, votes |-> <<vote>>, vote |-> vote]

processVote(tok, body, vs, r, id) ==
    LET electionId  == getString(body.electionId)
        candidateId == getString(body.candidateId)
        vote        == Vote(id, electionId, candidateId, tok.sub, r)
    IN  IF ~Includes(extractScopes(tok), REQUIRED_SCOPE)
        THEN [status |-> 403, votes |-> vs, vote |-> NoVote]
        ELSE IF ~body.present
        THEN [status |-> 400, votes |-> vs, vote |-> NoVote]
        ELSE IF electionId = NullString \/ candidateId = NullString
        THEN [status |-> 400, votes |-> vs, vote |-> NoVote]
        ELSE IF alreadyVoted(vs, electionId, tok.sub)
        THEN [status |-> 409, votes |-> vs, vote |-> NoVote]
        ELSE [status |-> 201, votes |-> Append(vs, vote), vote |-> vote]


-----------------------------------------------------------------------------
(* GET /votes/{electionId}.                                                  *)

\* Names every JavaScript object inherits from Object.prototype.
ObjectPrototypeKeys ==
    {"constructor", "toString", "valueOf", "hasOwnProperty",
     "isPrototypeOf", "propertyIsEnumerable", "toLocaleString"}

\* A value of the counts object: the number n, or (t = "string") the text of
\* an inherited function followed by n times the digit 1.
Num(n) == [t |-> "number", n |-> n]
FunctionText(n) == [t |-> "string", n |-> n]

\* The accessor property of Object.prototype that reads and sets the
\* prototype of an object.
PROTO == "__proto__"

\* (counts[key] || 0) + 1 on the object counts = {} with own properties own:
\* an own number is incremented; a missing key gives 0 + 1; an inherited
\* function is truthy, and function + 1 is the function's text followed by
\* "1"; such a text + 1 appends another "1".  counts["__proto__"] reads the
\* prototype, and the assignment of a string to it sets nothing: counts
\* gets no own property.
NodeCountUp(own, key) ==
    IF key = PROTO THEN own
    ELSE IF key \in DOMAIN own
    THEN [own EXCEPT ![key] = [t |-> own[key].t, n |-> own[key].n + 1]]
    ELSE IF key \in ObjectPrototypeKeys
    THEN own @@ (key :> FunctionText(1))
    ELSE own @@ (key :> Num(1))

\* filtered.forEach(v => counts[v.candidateId] = ...)
RECURSIVE NodeCounts(_, _)
NodeCounts(filtered, own) ==
    IF filtered = <<>> THEN own
    ELSE NodeCounts(Tail(filtered),
                    NodeCountUp(own, ToPropertyKey(Head(filtered).candidateId)))

\* The path parameter is a string.
NodeFiltered(vs, electionId) ==
    SelectSeq(vs, LAMBDA v : StrictEquals(v.electionId, Str(electionId)))

EmptyCounts == [k \in {} |-> Num(0)]

NodeGetElectionVotes(vs, electionId) ==
    LET filtered == NodeFiltered(vs, electionId)
    IN  [status |-> 200, electionId |-> electionId,
         total |-> Len(filtered), counts |-> NodeCounts(filtered, EmptyCounts)]

\* handleGetElectionVotes builds counts in a ConcurrentHashMap and then casts
\* it to Buffer, (Buffer) counts: the cast throws ClassCastException, the
\* response is never written, and the router answers 500.
handleGetElectionVotes(vs, electionId) ==
    [status |-> 500, electionId |-> electionId, total |-> 0, counts |-> EmptyCounts]

\* No answer to a GET request.  An answer names the route in path; total
\* and counts are fields of the answer of /votes/:electionId, list is the
\* array answered by /votes, service and ok are the fields answered by / and
\* by /health.
NoResponse == [status |-> 0, electionId |-> "", total |-> 0, counts |-> EmptyCounts,
               inst |-> "", path |-> "", list |-> <<>>, service |-> "", ok |-> FALSE]

-----------------------------------------------------------------------------
(* The requests and the actions.                                             *)

NoToken ==
    [AccessToken("", <<>>, "string") EXCEPT !.auth = FALSE, !.form = "none"]

Body(electionId, candidateId) ==
    [present |-> TRUE, electionId |-> electionId, candidateId |-> candidateId,
     voterId |-> Undefined]

NoBody == [present |-> FALSE, electionId |-> Undefined, candidateId |-> Undefined,
           voterId |-> Undefined]

\* The request q with the identity data of the load test: the body field
\* voterId and the header X-Voter-ID, both x.
WithVoterId(q, x) ==
    [tok |-> q.tok, body |-> [q.body EXCEPT !.voterId = Str(x)], xVoterId |-> x]

\* req.headers['x-voter-id'], "" when the header is not sent.
XVoterId(q) == IF "xVoterId" \in DOMAIN q THEN q.xVoterId ELSE ""

IdleSlot ==
    [st |-> "idle", inst |-> "", tok |-> NoToken, body |-> NoBody, xVoterId |-> "",
     status |-> 0, vote |-> NoVote, code |-> "", live |-> FALSE, conc |-> {},
     fresh |-> FALSE]

\* The same JSON value, whichever parse allocated it.
SameJson(a, b) == a.t = b.t /\ a.v = b.v

\* A vote of (electionId, sub) is in the list vs.
Recorded(vs, electionId, sub) ==
    \E k \in 1..Len(vs) : SameJson(vs[k].electionId, electionId) /\ vs[k].sub = sub

\* The requests of process i whose token is being verified.
Verifying(i) == {r \in Slots : reqs[r].st = "verifying" /\ reqs[r].inst = i}

\* A token of a voter, as the issuer writes it after the OAuth flow of
\* POC_SETUP.md (scope=openid ... vote:cast).
VoterToken(sub) == AccessToken(sub, <<OPENID, REQUIRED_SCOPE>>, "string")

VoteRequests ==
    {[tok |-> VoterToken("u1"), body |-> b] :
        b \in {Body(Str("e1"), Str("A")), Body(Str("e1"), Str("B")),
               Body(Str("e2"), Str("A")), Body(ArrOf("e1"), Str("A"))}}
    \cup {[tok |-> VoterToken("u2"), body |-> Body(Str("e1"), Str("A"))]}

\* The path parameters of the GET requests.
ElectionIds == {"e1", "e2"}

\* A process of the Node service that has just started: no cache object.
NodeStarted ==
    [up |-> TRUE, jwks |-> FALSE, keys |-> FALSE, newKey |-> FALSE,
     cooling |-> FALSE, made |-> 0, fetches |-> 0]

\* A variant of JavaStarted that opens the HTTP server whether or not the
\* key set was loaded.
JavaStartedServesAnyway(loaded) ==
    [up |-> TRUE, jwks |-> loaded, keys |-> loaded,
     newKey |-> loaded /\ issuer.rotated, cooling |-> FALSE,
     made |-> IF loaded THEN 1 ELSE 0, fetches |-> 1]

\* A process of the Java service after start: initializeJWKS fetches the key
\* set once; when that fails (loaded is FALSE) start fails and nothing is
\* served.
JavaStarted(loaded) ==
    [up |-> loaded, jwks |-> loaded, keys |-> loaded,
     newKey |-> loaded /\ issuer.rotated, cooling |-> FALSE,
     made |-> IF loaded THEN 1 ELSE 0, fetches |-> 1]

\* One more fetch of the key set.
CountUp(n) == IF n < MaxFetches THEN n + 1 ELSE n

\* The cache object of the Node service (createRemoteJWKSet) fetches the key
\* set for a token in compact form when it holds no keys, and again when
\* the keys it holds do not match the token and the cooldown since its last
\* fetch is over.
NeedsFetch(tok, p) ==
    /\ tok.form = "compact"
    /\ \/ ~p.keys
       \/ tok.sig \in IssuerKeys /\ ~KeyKnown(tok, p.newKey) /\ ~p.cooling

\* getJWKS of the Node service: creates the cache object when there is none.
getJWKS(p) ==
    IF ~p.jwks THEN [p EXCEPT !.jwks = TRUE, !.made = @ + 1] ELSE p

\* POST /vote arrives at process i: the handler runs up to the verification
\* of the token.  A missing or non-Bearer Authorization header is answered
\* 401 at once.  In the Node service getJWKS runs synchronously inside
\* verifyToken and creates the key-set cache object when there is none.
ReceiveVote(r, i, q) ==
    /\ reqs[r].st = "idle"
    /\ IF r = 1 THEN TRUE ELSE reqs[r - 1].st # "idle"
    /\ proc[i].up
    /\ q.tok.sig = "hydra-new" => issuer.rotated
    /\ reqs' = [reqs EXCEPT ![r] =
           [st       |-> IF q.tok.auth THEN "verifying" ELSE "done",
            inst     |-> i,
            tok      |-> q.tok,
            body     |-> ParseBody(q.body, r),
            xVoterId |-> XVoterId(q),
            status   |-> IF q.tok.auth THEN 0 ELSE 401,
            vote     |-> NoVote,
            code     |-> "",
            live     |-> ~q.tok.auth,
            conc     |-> Verifying(i),
            fresh    |-> ~Recorded(votes[i], q.body.electionId, q.tok.sub)]]
    /\ proc' = IF i = "node" /\ q.tok.auth
               THEN [proc EXCEPT ![i] = getJWKS(proc[i])]
               ELSE proc
    /\ lastGet' = NoResponse
    /\ UNCHANGED <<votes, issuer, flows, hydra>>

\* The verification of the token of request r of the Node service settles and
\* the handler continues.  fetched: whether the key set could be fetched from
\* the issuer, when the cache holds no keys yet.  The cache object fetches
\* for a token in compact form when it holds no keys, and the requests that
\* wait for keys at that time wait for this one fetch: when it fails, the
\* verification of each of them fails with it.
NodeCompleteVote(r, fetched, id) ==
    LET i       == reqs[r].inst
        fetches == NeedsFetch(reqs[r].tok, proc[i])
        loaded  == fetches /\ fetched
        keys    == proc[i].keys \/ loaded
        newKey  == IF loaded THEN issuer.rotated ELSE proc[i].newKey
        code    == IF fetches /\ ~fetched THEN "ERR_JWKS_TIMEOUT"
                   ELSE jwtVerify(reqs[r].tok, keys, newKey)
        res     == NodeHandleVote(reqs[r].tok, reqs[r].body, votes[i], r, id)
        waiting == {o \in Verifying(i) : NeedsFetch(reqs[o].tok, proc[i])}
    IN  /\ reqs[r].st = "verifying"
        /\ i = "node"
        /\ ~fetches => fetched
        /\ proc' = IF fetches
                   THEN [proc EXCEPT ![i].keys = keys, ![i].newKey = newKey,
                                     ![i].cooling = @ \/ loaded,
                                     ![i].fetches = CountUp(@)]
                   ELSE proc
        /\ IF code = "ok"
           THEN /\ votes' = [votes EXCEPT ![i] = res.votes]
                /\ reqs' = [reqs EXCEPT ![r].st = "done", ![r].code = code,
                                        ![r].live = TRUE,
                                        ![r].status = res.status, ![r].vote = res.vote]
           ELSE /\ reqs' = [o \in Slots |->
                              IF o = r \/ (fetches /\ ~fetched /\ o \in waiting)
                              THEN [reqs[o] EXCEPT !.st = "done", !.code = code,
                                                   !.live = TRUE,
                                                   !.status = NodeCatch(code)]
                              ELSE reqs[o]]
                /\ UNCHANGED votes
        /\ lastGet' = NoResponse
        /\ UNCHANGED <<issuer, flows, hydra>>

\* The verification of the token of request r of the Java service settles
\* (executeBlocking, ordered: the oldest first) and processVote or the
\* failure handler runs.
JavaCompleteVote(r, id) ==
    LET i   == reqs[r].inst
        res == processVote(reqs[r].tok, reqs[r].body, votes[i], r, id)
    IN  /\ reqs[r].st = "verifying"
        /\ i = "java"
        /\ \A o \in Verifying(i) : r <= o
        /\ IF jwtProcessorProcess(reqs[r].tok, proc[i].newKey)
           THEN /\ votes' = [votes EXCEPT ![i] = res.votes]
                /\ reqs' = [reqs EXCEPT ![r].st = "done", ![r].code = "ok",
                                        ![r].live = TRUE,
                                        ![r].status = res.status, ![r].vote = res.vote]
           ELSE /\ reqs' = [reqs EXCEPT ![r].st = "done", ![r].code = "failed",
                                        ![r].live = TRUE, ![r].status = 401]
                /\ UNCHANGED votes
        /\ lastGet' = NoResponse
        /\ UNCHANGED <<proc, issuer, flows, hydra>>

\* Process i stops and is started again: its memory is new, the requests it
\* was handling are never answered.  The Java service loads the key set in
\* start and serves only if that succeeded (loaded).
Restart(i, loaded) ==
    /\ votes' = [votes EXCEPT ![i] = <<>>]
    /\ reqs' = [r \in Slots |->
                  IF r \in Verifying(i) THEN [reqs[r] EXCEPT !.st = "dropped"]
                  ELSE IF reqs[r].inst = i THEN [reqs[r] EXCEPT !.live = FALSE]
                  ELSE reqs[r]]
    /\ proc' = [proc EXCEPT ![i] =
                  IF i = "node" THEN NodeStarted ELSE JavaStarted(loaded)]
    /\ lastGet' = NoResponse
    /\ UNCHANGED <<issuer, flows, hydra>>

\* GET /votes/{electionId} of process i.
GetElectionVotes(i, electionId) ==
    LET res == IF i = "node" THEN NodeGetElectionVotes(votes[i], electionId)
               ELSE handleGetElectionVotes(votes[i], electionId)
    IN  /\ proc[i].up
        /\ lastGet' = [NoResponse EXCEPT !.status = res.status,
                                         !.electionId = res.electionId,
                                         !.total = res.total, !.counts = res.counts,
                                         !.inst = i, !.path = "/votes/:electionId"]
        /\ UNCHANGED <<votes, proc, reqs, issuer, flows, hydra>>

\* GET / of process i: the name of the service.
GetRoot(i) ==
    /\ proc[i].up
    /\ lastGet' = [NoResponse EXCEPT !.status = 200, !.inst = i, !.path = "/",
                                     !.service = IF i = "node" THEN "vote-api"
                                                 ELSE "vote-api-java",
                                     !.ok = TRUE]
    /\ UNCHANGED <<votes, proc, reqs, issuer, flows, hydra>>

\* GET /health of process i.
GetHealth(i) ==
    /\ proc[i].up
    /\ lastGet' = [NoResponse EXCEPT !.status = 200, !.inst = i, !.path = "/health",
                                     !.ok = TRUE]
    /\ UNCHANGED <<votes, proc, reqs, issuer, flows, hydra>>

\* GET /votes of process i: the recorded votes.
GetVotes(i) ==
    /\ proc[i].up
    /\ lastGet' = [NoResponse EXCEPT !.status = 200, !.inst = i, !.path = "/votes",
                                     !.list = votes[i]]
    /\ UNCHANGED <<votes, proc, reqs, issuer, flows, hydra>>

Init ==
    /\ votes = [i \in Instances |-> <<>>]
    /\ reqs = [r \in Slots |-> IdleSlot]
    /\ issuer = [rotated |-> FALSE]
    /\ \E loaded \in BOOLEAN :
         proc = [i \in Instances |->
                   IF i = "node" THEN NodeStarted ELSE JavaStarted(loaded)]
    /\ lastGet = NoResponse
    /\ flows = [f \in Flows |-> IdleFlow]
    /\ hydra = NoAccepts

Complete ==
    \/ \E r \in Slots, fetched \in BOOLEAN, id \in VoteIds : NodeCompleteVote(r, fetched, id)
    \/ \E r \in Slots, id \in VoteIds : JavaCompleteVote(r, id)

Next ==
    \/ \E r \in Slots, i \in Instances, q \in VoteRequests : ReceiveVote(r, i, q)
    \/ Complete
    \/ \E i \in Instances, loaded \in BOOLEAN : Restart(i, loaded)

Spec == Init /\ [][Next]_vars

\* The votes and the reads of the results: requests of two voters, for
\* ordinary candidate names and for one that Object.prototype knows too.
ReadRequests ==
    {[tok |-> VoterToken("u1"), body |-> b] :
        b \in {Body(Str("e1"), Str("A")), Body(Str("e2"), Str("A")),
               Body(Str("e1"), Str("constructor"))}}
    \cup {[tok |-> VoterToken("u2"), body |-> b] :
        b \in {Body(Str("e1"), Str("A")), Body(Str("e1"), Str("B"))}}

NextRead ==
    \/ \E r \in Slots, i \in Instances, q \in ReadRequests : ReceiveVote(r, i, q)
    \/ Complete
    \/ \E i \in Instances, e \in ElectionIds : GetElectionVotes(i, e)

SpecRead == Init /\ [][NextRead]_vars

\* Votes and reads of the results where one of the candidate ids is the
\* name of the prototype accessor.
LazyRequests ==
    {[tok |-> VoterToken(u), body |-> Body(Str(e), Str(c))] :
        u \in {"u1", "u2"}, e \in ElectionIds, c \in {"A", PROTO}}

NextLazy ==
    \/ \E r \in Slots, i \in Instances, q \in LazyRequests : ReceiveVote(r, i, q)
    \/ Complete
    \/ \E i \in Instances, e \in ElectionIds : GetElectionVotes(i, e)

SpecLazy == Init /\ [][NextLazy]_vars

\* The requests that fail the checks of the handler: a token without the
\* vote scope, as issued and then made unverifiable in each of the ways
\* the verifier knows, with a body that lacks candidateId; tokens whose
\* scope claims are near misses; and the request that passes.
NoScopeToken == AccessToken("u1", <<OPENID>>, "string")

BadTokens ==
    {[NoScopeToken EXCEPT !.form = "garbage"],
     [NoScopeToken EXCEPT !.sig = "forged"],
     [NoScopeToken EXCEPT !.payload = "other"],
     [NoScopeToken EXCEPT !.iss = "other"],
     [NoScopeToken EXCEPT !.expired = TRUE]}

\* A signed token whose scope claim is not a string but the array
\* ["vote:cast"]; no scope is granted by such a claim.
ArrayScopeToken ==
    [AccessToken("u1", <<>>, "string") EXCEPT !.scope = ListClaim(<<REQUIRED_SCOPE>>)]

\* A token of a voter that carries the claim eligible=true.
EligibleToken == [VoterToken("u2") EXCEPT !.eligible = TRUE]

CheckRequests ==
    {[tok |-> t, body |-> Body(Str("e1"), Undefined)] :
        t \in BadTokens \cup {NoToken, NoScopeToken, VoterToken("u1")}}
    \cup {[tok |-> t, body |-> Body(Str("e1"), Str("A"))] :
        t \in {AccessToken("u1", <<OPENID, CASTLE_SCOPE>>, "string"),
               AccessToken("u1", <<OPENID, REQUIRED_SCOPE>>, "list"),
               ArrayScopeToken,
               EligibleToken,
               VoterToken("u1")}}

NextChecks ==
    \/ \E r \in Slots, i \in Instances, q \in CheckRequests : ReceiveVote(r, i, q)
    \/ Complete

SpecChecks == Init /\ [][NextChecks]_vars

\* Every kind of request the vote API serves: votes that are accepted and
\* votes that are answered 400, 401, 403, 409 and 500, and the four GET
\* routes.
FrameRequests ==
    {[tok |-> t, body |-> Body(Str("e1"), Str("A"))] :
        t \in {NoToken, [NoScopeToken EXCEPT !.form = "garbage"], NoScopeToken,
               ArrayScopeToken, VoterToken("u1")}}
    \cup {[tok |-> VoterToken("u1"), body |-> Body(Str("e1"), Undefined)]}

GetRequest ==
    \/ \E i \in Instances : GetRoot(i)
    \/ \E i \in Instances : GetHealth(i)
    \/ \E i \in Instances : GetVotes(i)
    \/ \E i \in Instances : GetElectionVotes(i, "e1")

NextFrame ==
    \/ \E r \in Slots, i \in Instances, q \in FrameRequests : ReceiveVote(r, i, q)
    \/ Complete
    \/ GetRequest

SpecFrame == Init /\ [][NextFrame]_vars

\* The bodies a client can send with a voter's token: the two ids present,
\* one of them the empty string, an array or absent, and no body at all.
BodyRequests ==
    {[tok |-> VoterToken("u1"), body |-> b] :
        b \in {Body(Str("e1"), Str("A")), Body(Str("e1"), Str("")),
               Body(Str(""), Str("A")), Body(ArrOf("e1"), Str("A")),
               Body(Str("e1"), ArrOf("A")), Body(Str("e1"), Undefined),
               Body(Undefined, Str("A")), NoBody}}

NextBodies ==
    \/ \E r \in Slots, i \in Instances, q \in BodyRequests : ReceiveVote(r, i, q)
    \/ Complete

SpecBodies == Init /\ [][NextBodies]_vars

\* The requests of the load test: votes of two voters for one election, as
\* they are and with a voterId field and an X-Voter-ID header that name the
\* voter, the other voter, or nobody known.
IdentityRequests ==
    LET plain == {[tok |-> VoterToken(u), body |-> Body(Str("e1"), Str(c))] :
                     u \in {"u1", "u2"}, c \in {"A"}}
    IN  plain \cup {WithVoterId(q, x) : q \in plain, x \in {"u1", "u2", "voter-1-0"}}

NextIdentity ==
    \/ \E r \in Slots, i \in Instances, q \in IdentityRequests : ReceiveVote(r, i, q)
    \/ Complete

SpecIdentity == Init /\ [][NextIdentity]_vars

\* The issuer replaces its signing key: from now on it signs its tokens with
\* the new key and publishes a key set that holds it.
RotateKey ==
    /\ ~issuer.rotated
    /\ issuer' = [issuer EXCEPT !.rotated = TRUE]
    /\ UNCHANGED <<votes, proc, reqs, lastGet, flows, hydra>>

\* Time passes: the cooldown of the cache object of the Node service, which
\* began with its last fetch, is over.
CooldownEnds ==
    /\ proc["node"].cooling
    /\ proc' = [proc EXCEPT !["node"].cooling = FALSE]
    /\ UNCHANGED <<votes, reqs, lastGet, issuer, flows, hydra>>

\* The client is done with the answer to request r and goes on to send its
\* next request (the load test sends requests in a loop).
NextIteration(r) ==
    /\ reqs[r].st = "done"
    /\ reqs' = [reqs EXCEPT ![r] = IdleSlot]
    /\ UNCHANGED <<votes, proc, lastGet, issuer, flows, hydra>>

\* A token of a voter that the issuer signed with its new key.
NewKeyToken(sub) == [VoterToken(sub) EXCEPT !.sig = "hydra-new"]

NewKeyRequest == [tok |-> NewKeyToken("u1"), body |-> Body(Str("e1"), Str("A"))]

RotateRequests ==
    {[tok |-> VoterToken("u1"), body |-> Body(Str("e1"), Str("A"))], NewKeyRequest}

\* The Node service fetches the key set anew and finds the new key in it.
NodeRefreshes ==
    /\ \E r \in Slots, id \in VoteIds : NodeCompleteVote(r, TRUE, id)
    /\ ~proc["node"].newKey
    /\ proc'["node"].newKey

NextRotate ==
    \/ \E r \in Slots, i \in Instances, q \in RotateRequests : ReceiveVote(r, i, q)
    \/ Complete
    \/ RotateKey
    \/ CooldownEnds
    \/ \E r \in Slots : NextIteration(r)

\* The processes keep running while the issuer replaces its key.  Every
\* verification settles, time passes, the clients keep sending requests with
\* their current tokens to each service, and the key-set endpoint of the
\* issuer answers again and again.
SpecRotate ==
    /\ Init /\ [][NextRotate]_vars
    /\ WF_vars(Complete)
    /\ WF_vars(CooldownEnds)
    /\ WF_vars(\E r \in Slots : NextIteration(r))
    /\ \A i \in Instances :
         SF_vars(\E r \in Slots : ReceiveVote(r, i, NewKeyRequest))
    /\ SF_vars(NodeRefreshes)

\* The requests to GET /login: without login_challenge, with an empty one,
\* with the challenges Hydra waits for and with one it does not know; sent
\* without a cookie, with the cookie of a session, and with the cookie of a
\* session whose identity has no id.
LoginChallenges ==
    {NoParam, Param(<<>>), Param(<<"stale">>)} \cup {Param(c) : c \in HydraLoginChallenges}

LoginCookies == Cookies \ {"bob-session"}

LoginAttempt ==
    \/ \E f \in Flows, out \in Outcomes : NodeLoginWhoami(f, out)
    \/ \E f \in Flows, out \in Outcomes : NodeLoginAccept(f, out)
    \/ \E f \in Flows, out \in Outcomes : JavaLoginWhoami(f, out)
    \/ \E f \in Flows, out \in Outcomes : JavaLoginAccept(f, out)

NextLogin ==
    \/ \E f \in Flows, i \in Instances, c \in LoginChallenges, k \in LoginCookies :
          ReceiveLogin(f, i, c, k)
    \/ LoginAttempt

SpecLogin == Init /\ [][NextLogin]_vars

\* The requests to GET /consent: without consent_challenge, with the
\* challenges Hydra waits for and with one it does not know; sent without a
\* cookie and with the cookie of a session with and without an email trait.
ConsentChallenges ==
    {NoParam, Param(<<"stale">>)} \cup {Param(c) : c \in HydraConsentChallenges}

ConsentCookies == Cookies \ {"anonymous-session"}

ConsentAttempt ==
    \/ \E f \in Flows, out \in Outcomes : NodeConsentGet(f, out)
    \/ \E f \in Flows, out \in Outcomes : NodeConsentWhoami(f, out)
    \/ \E f \in Flows, out \in Outcomes : NodeConsentAccept(f, out)
    \/ \E f \in Flows, out \in Outcomes : JavaConsentGet(f, out)
    \/ \E f \in Flows, out \in Outcomes : JavaConsentWhoami(f, out)
    \/ \E f \in Flows, out \in Outcomes : JavaConsentAccept(f, out)

NextConsent ==
    \/ \E f \in Flows, i \in Instances, c \in ConsentChallenges, k \in ConsentCookies :
          ReceiveConsent(f, i, c, k)
    \/ ConsentAttempt

SpecConsent == Init /\ [][NextConsent]_vars

\* Requests to GET /login and GET /consent without a challenge, with an
\* empty one and with one that Hydra waits for, sent with the cookie of a
\* session.
NextMissing ==
    \/ \E f \in Flows, i \in Instances,
          c \in {NoParam, Param(<<>>), Param(<<"l", "&", "2">>)} :
          ReceiveLogin(f, i, c, "alice-session")
    \/ \E f \in Flows, i \in Instances,
          c \in {NoParam, Param(<<>>), Param(<<"k", "&", "1">>)} :
          ReceiveConsent(f, i, c, "alice-session")
    \/ LoginAttempt
    \/ ConsentAttempt

SpecMissing == Init /\ [][NextMissing]_vars

\* An attempt of call f of fetchWithRetry ends.
FetchSettles(f) ==
    \E out \in {"throw", "serve"}, status \in Statuses \cup {0} : FetchAttempt(f, out, status)

\* Calls of fetchWithRetry with every maxRetries from 0 to MaxRetries.  An
\* attempt that was started ends: fetch resolves or rejects, and the timer
\* of the pause before the next attempt fires.
NextRetry ==
    \/ \E f \in Flows, maxRetries \in 0..MaxRetries : CallFetchWithRetry(f, maxRetries)
    \/ \E f \in Flows : FetchSettles(f)

SpecRetry ==
    /\ Init /\ [][NextRetry]_vars
    /\ \A f \in Flows : WF_vars(FetchSettles(f))

\* The two services side by side: every POST /vote is sent to both, the Node
\* service first (an odd slot) and then, with the same token and the same
\* body, the Java service (the slot after it).  Hydra is reachable: the
\* key set can be fetched.  The tokens are a voter's, with the scopes in the
\* scope string or in the scp array, and the ones that fail verification;
\* the bodies carry two ids, one of them possibly the empty string.
Firsts == {r \in Slots : r % 2 = 1 /\ r + 1 \in Slots}

PairTokens ==
    {NoToken, VoterToken("u1"), NoScopeToken,
     AccessToken("u1", <<OPENID, REQUIRED_SCOPE>>, "list")}
    \cup {[VoterToken("u1") EXCEPT !.form = "garbage"],
          [VoterToken("u1") EXCEPT !.sig = "forged"],
          [VoterToken("u1") EXCEPT !.payload = "other"],
          [VoterToken("u1") EXCEPT !.iss = "other"],
          [VoterToken("u1") EXCEPT !.expired = TRUE]}

PairRequests ==
    {[tok |-> t, body |-> b] :
        t \in PairTokens,
        b \in {Body(Str("e1"), Str("A")), Body(Str(""), Str("A")),
               Body(Str("e1"), Str(""))}}

\* The request q is the one slot r holds.
SameRequest(q, r) ==
    /\ q.tok = reqs[r].tok
    /\ ParseBody(q.body, r) = reqs[r].body

NextPair ==
    \/ \E r \in Firsts, q \in PairRequests : ReceiveVote(r, "node", q)
    \/ \E r \in Firsts, q \in PairRequests :
          SameRequest(q, r) /\ ReceiveVote(r + 1, "java", q)
    \/ \E r \in Slots, id \in VoteIds : NodeCompleteVote(r, TRUE, id)
    \/ \E r \in Slots, id \in VoteIds : JavaCompleteVote(r, id)

SpecPair == Init /\ [][NextPair]_vars

\* The two login-consent services side by side: every GET /login is sent to
\* both, the Node service first (an odd request) and then, with the same
\* login_challenge and the same cookie, the Java service (the request after
\* it).  What Kratos and Hydra answer to each attempt is open.
BothFlows == 1..(2 * MaxFlows)

NodeSides == {f \in BothFlows : f % 2 = 1}

InitBoth ==
    /\ votes = [i \in Instances |-> <<>>]
    /\ reqs = [r \in Slots |-> IdleSlot]
    /\ issuer = [rotated |-> FALSE]
    /\ \E loaded \in BOOLEAN :
         proc = [i \in Instances |->
                   IF i = "node" THEN NodeStarted ELSE JavaStarted(loaded)]
    /\ lastGet = NoResponse
    /\ flows = [f \in BothFlows |-> IdleFlow]
    /\ hydra = NoAccepts

NextBoth ==
    \/ \E f \in NodeSides, c \in LoginChallenges, k \in LoginCookies :
          ReceiveLogin(f, "node", c, k)
    \/ \E f \in NodeSides :
          ReceiveLogin(f + 1, "java", flows[f].challenge, flows[f].cookie)
    \/ \E f \in BothFlows, out \in Outcomes : NodeLoginWhoami(f, out)
    \/ \E f \in BothFlows, out \in Outcomes : NodeLoginAccept(f, out)
    \/ \E f \in BothFlows, out \in Outcomes : JavaLoginWhoami(f, out)
    \/ \E f \in BothFlows, out \in Outcomes : JavaLoginAccept(f, out)

SpecBoth == InitBoth /\ [][NextBoth]_vars

\* The processes start, stop and start again while votes and reads arrive:
\* the key set is loaded or not at each start of the Java service.
StartRequests ==
    {[tok |-> t, body |-> Body(Str("e1"), Str("A"))] : t \in {NoToken, VoterToken("u1")}}

NextStart ==
    \/ \E r \in Slots, i \in Instances, q \in StartRequests : ReceiveVote(r, i, q)
    \/ Complete
    \/ \E i \in Instances, loaded \in BOOLEAN : Restart(i, loaded)
    \/ GetRequest

SpecStart == Init /\ [][NextStart]_vars

-----------------------------------------------------------------------------
(* Vocabulary of the properties.                                             *)

\* electionId and candidateId are present and well-formed: non-empty strings.
WellFormed(body) ==
    /\ body.present
    /\ body.electionId.t = "string" /\ body.electionId.v # ""
    /\ body.candidateId.t = "string" /\ body.candidateId.v # ""

\* The token carries the scope claim and the issuer granted the vote scope.
HasVoteScope(tok) == tok.scope.t = "string" /\ REQUIRED_SCOPE \in tok.granted

\* Request g was answered 201.
Accepted(g) == reqs[g].st = "done" /\ reqs[g].status = 201

\* Requests a and b name the same (electionId, sub) pair.
SamePair(a, b) ==
    /\ SameJson(reqs[a].body.electionId, reqs[b].body.electionId)
    /\ reqs[a].tok.sub = reqs[b].tok.sub

\* Request r was verified, has the vote scope and a well-formed body.
Valid(r) ==
    /\ reqs[r].st = "done"
    /\ reqs[r].code = "ok"
    /\ HasVoteScope(reqs[r].tok)
    /\ WellFormed(reqs[r].body)

\* The vote of request g is in the list of its process.
Counted(g) ==
    /\ reqs[g].st = "done"
    /\ \E k \in 1..Len(votes[reqs[g].inst]) : votes[reqs[g].inst][k].by = g

-----------------------------------------------------------------------------
\* C1: in every reachable state the vote list of a process holds at most one
\* vote for each (electionId, sub) pair.
C1_OneVotePerPair ==
    \A i \in Instances : \A k, l \in 1..Len(votes[i]) :
        (/\ SameJson(votes[i][k].electionId, votes[i][l].electionId)
         /\ votes[i][k].sub = votes[i][l].sub) => k = l

\* C1, for the votes whose electionId is a string: these are unique per
\* (electionId, sub) in both services.
C1_OneVotePerStringPair ==
    \A i \in Instances : \A k, l \in 1..Len(votes[i]) :
        (/\ votes[i][k].electionId.t = "string"
         /\ votes[i][k].electionId = votes[i][l].electionId
         /\ votes[i][k].sub = votes[i][l].sub) => k = l


-----------------------------------------------------------------------------
\* The requests that were in verification together with r when r arrived.
Group(r) == reqs[r].conc \cup {r}

\* The requests sent to the process of r for the pair of r.
Peers(r) ==
    {g \in Slots : /\ reqs[g].st # "idle"
                   /\ reqs[g].inst = reqs[r].inst
                   /\ SamePair(g, r)}

\* Two or more requests of one process for one pair, all in verification at
\* the same time while the process holds no vote of the pair, are the only
\* requests for the pair, and all of them valid and answered.
ConcurrentSamePair(r) ==
    /\ Cardinality(Group(r)) >= 2
    /\ Peers(r) = Group(r)
    /\ reqs[r].fresh
    /\ \A g \in Group(r) : Valid(g)

\* C2: when N valid requests of the same subject for the same electionId are
\* in flight in one process at the same time, whatever the order in which
\* their verifications complete, exactly one is answered 201 and the other
\* N-1 are answered 409.
C2_ExactlyOneWinner ==
    \A r \in Slots :
        ConcurrentSamePair(r) =>
            /\ Cardinality({g \in Group(r) : reqs[g].status = 201}) = 1
            /\ \A g \in Group(r) : reqs[g].status \in {201, 409}

\* C2 happens, with the verifications completing out of arrival order: the
\* request that arrived last is the one accepted.
C2_Witness ==
    \E r \in Slots :
        /\ ConcurrentSamePair(r)
        /\ reqs[r].status = 201
        /\ \E g \in reqs[r].conc : reqs[g].status = 409

-----------------------------------------------------------------------------
\* Request g was accepted by the process that is still running.
AcceptedLive(g) == Accepted(g) /\ reqs[g].live

\* The step in which request r is answered after its token was verified.
Answers(r) ==
    /\ reqs[r].st = "verifying"
    /\ reqs'[r].st = "done"
    /\ reqs'[r].code = "ok"

\* C3: once a vote of (electionId, sub) was accepted, every later valid
\* request of the same pair to that process, whatever candidate it names, is
\* answered 409 and leaves the vote lists (so every vote and every count) as
\* they were.
C3_LaterRequestsRejected ==
    [][\A r \in Slots :
          (/\ Answers(r)
           /\ HasVoteScope(reqs[r].tok)
           /\ WellFormed(reqs[r].body)
           /\ \E g \in Slots : AcceptedLive(g) /\ reqs[g].inst = reqs[r].inst
                               /\ SamePair(g, r))
          => (reqs'[r].status = 409 /\ votes' = votes)]_vars

\* C3 happens: a request that arrived after a vote of its pair was recorded,
\* naming another candidate, was answered 409, and the first vote is there.
C3_Witness ==
    \E g, r \in Slots :
        /\ AcceptedLive(g) /\ Counted(g)
        /\ Valid(r) /\ reqs[r].status = 409 /\ ~reqs[r].fresh
        /\ reqs[r].inst = reqs[g].inst /\ SamePair(g, r)
        /\ reqs[r].body.candidateId # reqs[g].body.candidateId

-----------------------------------------------------------------------------
-----------------------------------------------------------------------------
-----------------------------------------------------------------------------
\* C10: a request with a verified token that has the vote scope and with a
\* well-formed body, for a pair of which its process holds no vote, is
\* answered 201 with a vote that has an id and is recorded, whatever other
\* votes the process holds.
C10_FreshPairAccepted ==
    [][\A r \in Slots :
          (/\ Answers(r)
           /\ HasVoteScope(reqs[r].tok)
           /\ WellFormed(reqs[r].body)
           /\ ~Recorded(votes[reqs[r].inst], reqs[r].body.electionId, reqs[r].tok.sub))
          => (/\ reqs'[r].status = 201
              /\ reqs'[r].vote.id # ""
              /\ reqs'[r].vote.by = r
              /\ votes'[reqs[r].inst] = Append(votes[reqs[r].inst], reqs'[r].vote))]_vars

\* C10 happens: a request was accepted by a process that already held a vote
\* of another subject in the same election, or of the same subject in
\* another election.
C10_Witness ==
    \E r \in Slots :
        /\ AcceptedLive(r) /\ Valid(r)
        /\ LET vs == votes[reqs[r].inst]
           IN  /\ Len(vs) >= 2
               /\ vs[Len(vs)].by = r
               /\ \E k \in 1..(Len(vs) - 1) :
                    \/ /\ vs[k].electionId = vs[Len(vs)].electionId
                       /\ vs[k].sub # vs[Len(vs)].sub
                    \/ /\ vs[k].electionId # vs[Len(vs)].electionId
                       /\ vs[k].sub = vs[Len(vs)].sub


-----------------------------------------------------------------------------
\* The candidate names of the requests.
CandidateNames == {"A", "B", "constructor"}

\* The number of votes of vs for election e and candidate c.
VotesFor(vs, e, c) ==
    Cardinality({k \in 1..Len(vs) :
                    vs[k].electionId = Str(e) /\ vs[k].candidateId = Str(c)})

\* The number of votes of vs for election e.
VotesIn(vs, e) == Cardinality({k \in 1..Len(vs) : vs[k].electionId = Str(e)})

\* The value reported for candidate c; a candidate without an entry has 0.
Reported(counts, c) == IF c \in DOMAIN counts THEN counts[c] ELSE Num(0)

RECURSIVE SumOf(_, _)
SumOf(counts, keys) ==
    IF keys = {} THEN 0
    ELSE LET k == CHOOSE x \in keys : TRUE
         IN  (IF counts[k].t = "number" THEN counts[k].n ELSE 0)
             + SumOf(counts, keys \ {k})

\* C6: the answer of the Node service to GET /votes/{e} reports, for every
\* candidate c, the number of votes recorded for (e, c), and as total the
\* number of votes recorded for e, which is the sum of the counts.
C6_CountsMatchVotes ==
    lastGet.inst = "node" =>
        LET vs == votes["node"]
            e  == lastGet.electionId
        IN  /\ lastGet.status = 200
            /\ \A c \in CandidateNames :
                 Reported(lastGet.counts, c) = Num(VotesFor(vs, e, c))
            /\ lastGet.total = VotesIn(vs, e)
            /\ lastGet.total = SumOf(lastGet.counts, DOMAIN lastGet.counts)

\* C6, for the candidate names that Object.prototype does not know.
C6_CountsMatchOrdinaryNames ==
    lastGet.inst = "node" =>
        LET vs == votes["node"]
            e  == lastGet.electionId
        IN  /\ lastGet.status = 200
            /\ \A c \in CandidateNames \ ObjectPrototypeKeys :
                 Reported(lastGet.counts, c) = Num(VotesFor(vs, e, c))
            /\ lastGet.total = VotesIn(vs, e)


-----------------------------------------------------------------------------
\* The step in which request r is answered, by either piece of the handler.
Answered(r) == reqs[r].st # "done" /\ reqs'[r].st = "done"

\* electionId or candidateId is missing from the body.
MissingId(body) ==
    \/ ~body.present
    \/ body.electionId.t = "undefined"
    \/ body.candidateId.t = "undefined"

\* The status of the answer to r is the one of the first failing check.
InOrder(r) ==
    LET tok  == reqs'[r].tok
        body == reqs'[r].body
        st   == reqs'[r].status
    IN  IF ~Genuine(tok) THEN st = 401
        ELSE IF REQUIRED_SCOPE \notin tok.granted THEN st = 403
        ELSE IF MissingId(body) THEN st = 400
        ELSE IF Recorded(votes[reqs'[r].inst], body.electionId, tok.sub)
        THEN st = 409
        ELSE TRUE

\* C7: the checks are applied in a fixed order and the first failure decides
\* the status: 401 for a missing or invalid token, otherwise 403 for a token
\* without the vote scope, otherwise 400 for a missing electionId or
\* candidateId, otherwise 409 for a pair that has a vote.  (A request whose
\* keys could not be obtained is left aside.)
C7_FirstFailureDecides ==
    [][\A r \in Slots :
          (Answered(r) /\ reqs'[r].code # "ERR_JWKS_TIMEOUT") => InOrder(r)]_vars

\* C7, for the Java service alone.
C7_JavaFirstFailureDecides ==
    [][\A r \in Slots :
          (Answered(r) /\ reqs'[r].inst = "java") => InOrder(r)]_vars

\* C8: a request whose bearer token fails verification (malformed, wrong
\* signature, wrong issuer, expired) is answered 401.
C8_InvalidTokenIs401 ==
    \A r \in Slots :
        (/\ reqs[r].st = "done"
         /\ reqs[r].tok.auth
         /\ ~Genuine(reqs[r].tok)
         /\ reqs[r].code # "ERR_JWKS_TIMEOUT") => reqs[r].status = 401

\* C8, for the Java service alone.
C8_JavaInvalidTokenIs401 ==
    \A r \in Slots :
        (/\ reqs[r].st = "done"
         /\ reqs[r].inst = "java"
         /\ ~Genuine(reqs[r].tok)) => reqs[r].status = 401

\* C9: every recorded vote stems from a request of its process whose token
\* passed verification and was granted the vote scope, and a request whose
\* verification or key retrieval failed has recorded nothing.
C9_OnlyVerifiedScopedVotes ==
    /\ \A i \in Instances : \A k \in 1..Len(votes[i]) :
         LET r == votes[i][k].by
         IN  /\ r \in Slots
             /\ reqs[r].inst = i
             /\ reqs[r].st = "done" /\ reqs[r].code = "ok"
             /\ Genuine(reqs[r].tok)
             /\ REQUIRED_SCOPE \in reqs[r].tok.granted
             /\ votes[i][k].sub = reqs[r].tok.sub
    /\ \A r \in Slots :
         (reqs[r].st = "done" /\ reqs[r].code # "ok") =>
             (reqs[r].status # 201 /\ ~Counted(r))

\* C9 happens: a process holds the vote of a verified request, after a
\* request with a good token found the keys unavailable and one with a bad
\* token was turned away.
C9_Witness ==
    \E g, r \in Slots :
        /\ Counted(g)
        /\ reqs[r].st = "done" /\ reqs[r].inst = reqs[g].inst
        /\ reqs[r].code \notin {"ok", ""}
        /\ ~Counted(r)


-----------------------------------------------------------------------------
\* C11: a request with a verified token that has the vote scope, whose
\* electionId or candidateId is absent or not well-formed (the empty string,
\* a value that is not a string), is answered 400 and records no vote.
C11_MalformedIs400 ==
    \A r \in Slots :
        (/\ reqs[r].st = "done" /\ reqs[r].code = "ok"
         /\ HasVoteScope(reqs[r].tok)
         /\ ~WellFormed(reqs[r].body)) =>
            (reqs[r].status = 400 /\ ~Counted(r))

\* C11, for an id that is absent only: answered 400, nothing recorded.
C11_AbsentIs400 ==
    \A r \in Slots :
        (/\ reqs[r].st = "done" /\ reqs[r].code = "ok"
         /\ HasVoteScope(reqs[r].tok)
         /\ MissingId(reqs[r].body)) =>
            (reqs[r].status = 400 /\ ~Counted(r))

\* C11, for the Node service and the empty string.
C11_NodeEmptyIs400 ==
    \A r \in Slots :
        (/\ reqs[r].st = "done" /\ reqs[r].code = "ok"
         /\ reqs[r].inst = "node"
         /\ HasVoteScope(reqs[r].tok)
         /\ Str("") \in {reqs[r].body.electionId, reqs[r].body.candidateId}) =>
            (reqs[r].status = 400 /\ ~Counted(r))


-----------------------------------------------------------------------------
\* The answer of process i to the verified request r, had the request carried
\* no voterId field: the status and the vote list left.
WithoutIdentity(r, id) ==
    LET i    == reqs[r].inst
        body == [reqs[r].body EXCEPT !.voterId = Undefined]
    IN  IF i = "node" THEN NodeHandleVote(reqs[r].tok, body, votes[i], r, id)
        ELSE processVote(reqs[r].tok, body, votes[i], r, id)

\* C12: the identity of a vote is the sub claim of the verified token.  The
\* answer to a verified request, and the vote list it leaves, are those of
\* the same request without the voterId field and the X-Voter-ID header, and
\* every recorded vote carries the sub of the token of its request.
C12_IdentityIsTokenSub ==
    [][/\ \A r \in Slots :
            Answers(r) =>
                \E id \in VoteIds :
                    /\ reqs'[r].status = WithoutIdentity(r, id).status
                    /\ votes'[reqs[r].inst] = WithoutIdentity(r, id).votes
       /\ \A i \in Instances : \A k \in 1..Len(votes'[i]) :
            votes'[i][k].sub = reqs'[votes'[i][k].by].tok.sub]_vars

\* C12 happens: a voter whose vote was accepted sent a second request naming
\* another voter in voterId and X-Voter-ID, and it was answered 409.
C12_Witness ==
    \E g, r \in Slots :
        /\ Counted(g) /\ reqs[g].body.voterId = Undefined
        /\ reqs[r].st = "done" /\ reqs[r].inst = reqs[g].inst
        /\ reqs[r].tok.sub = reqs[g].tok.sub
        /\ reqs[r].body.voterId.t = "string"
        /\ reqs[r].body.voterId.v # reqs[r].tok.sub
        /\ reqs[r].xVoterId # ""
        /\ reqs[r].status = 409


-----------------------------------------------------------------------------
-----------------------------------------------------------------------------
\* C14: whatever the token and the body of a POST /vote, the status of the
\* answer is below 500: success, 400, 401, 403 or 409.
C14_StatusBelow500 ==
    \A r \in Slots :
        reqs[r].st = "done" => reqs[r].status \in {200, 201, 400, 401, 403, 409}

\* C14, for the requests whose token is verified and carries a scope claim
\* that is a string, or none.
C14_OrdinaryTokenBelow500 ==
    \A r \in Slots :
        (/\ reqs[r].st = "done" /\ reqs[r].code = "ok"
         /\ reqs[r].tok.scope.t # "array") =>
            reqs[r].status \in {201, 400, 403, 409}

\* C14, for the Java service.
C14_JavaBelow500 ==
    \A r \in Slots :
        (reqs[r].st = "done" /\ reqs[r].inst = "java") =>
            reqs[r].status \in {201, 400, 401, 403, 409}


-----------------------------------------------------------------------------
\* C15: the key set is obtained once per process, on startup, and shared: a
\* process that handles a request holds its keys already, and since it
\* started it has made one fetch of the key set and one cache object, never
\* a second.
C15_ObtainedOnceOnStartup ==
    \A i \in Instances :
        /\ proc[i].fetches <= 1
        /\ proc[i].made <= 1
        /\ \A r \in Verifying(i) :
             proc[i].keys /\ proc[i].fetches = 1 /\ proc[i].made = 1

\* C15, in part: since it started a process has made at most one cache
\* object, and the requests in verification share it.
C15_OneCacheObject ==
    \A i \in Instances :
        /\ proc[i].made <= 1
        /\ \A r \in Verifying(i) : proc[i].jwks /\ proc[i].made = 1

\* C15, for the Java service: it serves only with the keys of the one fetch
\* of its start.
C15_JavaOnceOnStartup ==
    proc["java"].fetches <= 1 /\
    (proc["java"].up =>
        proc["java"].keys /\ proc["java"].fetches = 1 /\ proc["java"].made = 1)

\* C15, in part: the Node service does not fetch while it holds keys, and
\* the requests that wait for keys share one fetch (when a fetch has failed
\* no request is left waiting to repeat it).
C15_NodeFetchShared ==
    [][(proc'["node"].fetches = proc["node"].fetches + 1) =>
          /\ ~proc["node"].keys
          /\ proc'["node"].keys \/
               \A o \in Slots : ~(/\ reqs'[o].st = "verifying"
                                  /\ reqs'[o].inst = "node"
                                  /\ reqs'[o].tok.form = "compact")]_vars


-----------------------------------------------------------------------------
\* A token signed with the new key of the issuer has been verified by
\* process i.
NewKeyVerified(i) ==
    \E r \in Slots :
        /\ reqs[r].inst = i /\ reqs[r].st = "done"
        /\ reqs[r].tok.sig = "hydra-new" /\ reqs[r].code = "ok"

\* C16: the cached key set is refreshed over time: once the issuer has
\* replaced its signing key, every running process eventually verifies a
\* token signed with the new key.
C16_NewKeyEventuallyVerified ==
    \A i \in Instances :
        [](issuer.rotated /\ proc[i].up => <>NewKeyVerified(i))

\* C16, for the Node service.
C16_NodeNewKeyEventuallyVerified ==
    [](issuer.rotated => <>NewKeyVerified("node"))

\* C16, what the Java service does: a process that started before the
\* issuer replaced its key never verifies a token signed with the new key.
C16_JavaKeysFixed ==
    ~proc["java"].newKey /\ ~NewKeyVerified("java")


-----------------------------------------------------------------------------
\* C17: a request that finds the keys unavailable has the key set fetched
\* again, a bounded number of times, before it is rejected, and it is
\* rejected without a vote being recorded.
C17_RetriesThenRejects ==
    [][\A r \in Slots :
          (/\ Answered(r)
           /\ reqs'[r].code = "ERR_JWKS_TIMEOUT"
           /\ proc[reqs'[r].inst].fetches + 2 <= MaxFetches) =>
              /\ proc'[reqs'[r].inst].fetches >= proc[reqs'[r].inst].fetches + 2
              /\ reqs'[r].status \notin {200, 201}
              /\ votes' = votes]_vars

\* C17, in part: a request that finds the keys unavailable is rejected
\* after the one fetch that failed, and no vote is recorded.
C17_FailsClosed ==
    [][\A r \in Slots :
          (Answered(r) /\ reqs'[r].code = "ERR_JWKS_TIMEOUT") =>
              /\ reqs'[r].status = 500
              /\ reqs'[r].vote = NoVote
              /\ votes' = votes
              /\ ~proc'[reqs'[r].inst].keys
              /\ proc[reqs'[r].inst].fetches < MaxFetches =>
                   proc'[reqs'[r].inst].fetches = proc[reqs'[r].inst].fetches + 1]_vars

-----------------------------------------------------------------------------
\* C18: a vote is recorded only for a request whose verified token carries
\* the claim eligible=true.
C18_OnlyEligibleVotes ==
    \A i \in Instances : \A k \in 1..Len(votes[i]) :
        reqs[votes[i][k].by].tok.eligible

\* C18, what the services do: the claim makes no difference; a request with
\* a verified token that has the vote scope and a well-formed body for a
\* pair without a vote is accepted whether the token carries it or not.
C18_EligibilityNotRead ==
    [][\A r \in Slots :
          (/\ Answers(r) /\ WellFormed(reqs[r].body)
           /\ HasVoteScope(reqs[r].tok)
           /\ ~Recorded(votes[reqs[r].inst], reqs[r].body.electionId, reqs[r].tok.sub))
          => reqs'[r].status = 201]_vars

-----------------------------------------------------------------------------
\* The count the Node service reports now for candidate c of election e.
NodeReports(vs, e, c) == Reported(NodeGetElectionVotes(vs, e).counts, c)

\* No step changes or removes a recorded vote of process i; a step adds at
\* most one vote, at the end.
AppendOnly(i) ==
    /\ Len(votes'[i]) \in {Len(votes[i]), Len(votes[i]) + 1}
    /\ SubSeq(votes'[i], 1, Len(votes[i])) = votes[i]

\* The count reported for (e, c) is a number before and after the step, the
\* same or, when the step records a vote for (e, c), one more.
CountStep(e, c) ==
    LET old  == NodeReports(votes["node"], e, c)
        new  == NodeReports(votes'["node"], e, c)
        last == votes'["node"][Len(votes'["node"])]
    IN  /\ old.t = "number" /\ new.t = "number"
        /\ \/ new.n = old.n
           \/ /\ new.n = old.n + 1
              /\ Len(votes'["node"]) = Len(votes["node"]) + 1
              /\ last.electionId = Str(e) /\ last.candidateId = Str(c)

\* C19: recorded votes are append-only, and every count reported for an
\* (election, candidate) pair is a number that a step leaves as it is or,
\* when the step records a vote for that pair, raises by one.
C19_AppendOnlyCounts ==
    [][/\ \A i \in Instances : AppendOnly(i)
       /\ \A e \in ElectionIds, c \in CandidateNames : CountStep(e, c)]_vars

\* C19, for the candidate names that Object.prototype does not know.
C19_OrdinaryCountsGrowByOne ==
    [][\A e \in ElectionIds, c \in CandidateNames \ ObjectPrototypeKeys :
          CountStep(e, c)]_vars

\* C19, in part: the vote lists are append-only.
C19_VotesAppendOnly ==
    [][\A i \in Instances : AppendOnly(i)]_vars

-----------------------------------------------------------------------------
\* C20: the Java service answers GET /votes/{e} successfully, with total the
\* number of recorded votes of e and counts the number of votes of each
\* candidate.
C20_JavaReportsCounts ==
    lastGet.inst = "java" =>
        LET vs == votes["java"]
            e  == lastGet.electionId
        IN  /\ lastGet.status = 200
            /\ lastGet.electionId \in ElectionIds
            /\ lastGet.total = Cardinality({k \in 1..Len(vs) : vs[k].electionId.v = e})
            /\ \A c \in CandidateNames :
                 Reported(lastGet.counts, c) =
                     Num(Cardinality({k \in 1..Len(vs) :
                            vs[k].electionId.v = e /\ vs[k].candidateId.v = c}))

\* C20, what the Java service does: every GET /votes/{e} is answered 500.
C20_JavaAnswers500 ==
    lastGet.inst = "java" => lastGet.status = 500

-----------------------------------------------------------------------------
(* Vocabulary of the properties of the login-consent service.                *)

\* The session that Kratos holds for the cookies of request f.
SessionOf(f) == KratosWhoami(flows[f].cookie)

\* Kratos holds an active session for the cookies of request f, and its
\* identity has an id.
HasIdentity(f) ==
    /\ SessionOf(f).status = 200
    /\ SessionOf(f).identity.present
    /\ SessionOf(f).identity.id.t = "string"

\* The login challenges accepted on behalf of request f.
LoginsBy(f) == {a \in hydra.logins : a.by = f}

\* The consent challenges accepted on behalf of request f.
ConsentsBy(f) == {a \in hydra.consents : a.by = f}

LoginFlow(f) == flows[f].kind = "login" /\ flows[f].st # "idle"
ConsentFlow(f) == flows[f].kind = "consent" /\ flows[f].st # "idle"

-----------------------------------------------------------------------------
\* C21: a login challenge is accepted only for a request whose cookies have
\* an active Kratos session that Kratos reported to the handler, the subject
\* sent to Hydra is the identity id of that session, and for a request
\* without a session, or with a session without an identity id, no login
\* challenge is accepted.
C21_AcceptOnlyForSession ==
    \A f \in Flows :
        /\ \A a \in LoginsBy(f) :
              /\ LoginFlow(f)
              /\ flows[f].whoami = 200
              /\ HasIdentity(f)
              /\ a.subject = SessionOf(f).identity.id
              /\ a.challenge = flows[f].challenge.v
        /\ ~HasIdentity(f) => LoginsBy(f) = {}

\* C21: a login challenge has been accepted and the request answered with
\* a redirect.
C21_Witness ==
    \E f \in Flows : LoginsBy(f) # {} /\ flows[f].st = "done" /\ flows[f].status = 302

-----------------------------------------------------------------------------
\* The URL points to the login page of the Kratos UI, and its return_to
\* decodes to the URL of the /login endpoint that request f was sent to,
\* with the login_challenge of request f.
BackToLogin(f, url) ==
    LET return_to == QueryParam(url, RETURN_TO)
    IN  /\ WithoutQuery(url) = KRATOS_UI_URL \o <<"/", "login">>
        /\ return_to.present
        /\ WithoutQuery(return_to.v) = Origin(flows[f].inst) \o LoginPath
        /\ QueryParam(return_to.v, LOGIN_CHALLENGE) = flows[f].challenge

\* C22: a GET /login with a login_challenge to which Kratos reported no
\* active session (whoami answered 401) is answered 302 with a Location on
\* the Kratos UI login page whose return_to leads back to /login with the
\* same login_challenge, and the handler sends nothing to Hydra.
C22_NoSessionRedirectsToKratos ==
    \A f \in Flows :
        LoginFlow(f) /\ flows[f].whoami = 401 =>
            /\ flows[f].st = "done"
            /\ flows[f].status = 302
            /\ BackToLogin(f, flows[f].location)
            /\ "hydra" \notin flows[f].called
            /\ LoginsBy(f) = {}

\* C22: Kratos reported no session for a request whose challenge holds a
\* character that has to be encoded.
C22_Witness ==
    \E f \in Flows :
        /\ LoginFlow(f) /\ flows[f].whoami = 401 /\ flows[f].st = "done"
        /\ flows[f].challenge.v = <<"l", "&", "2">>

-----------------------------------------------------------------------------
\* A GET request is answered in this step.
GetAnsweredNow == lastGet'.path # ""

\* C23: the recorded votes of a process change only in a step that answers
\* a POST /vote to that process with 201, and then by that one vote; a step
\* that answers a POST /vote with 400, 401, 403, 409 or 500 and a step that
\* answers a GET request leave the recorded votes as they are.
C23_OnlyAcceptedVoteWrites ==
    [][/\ \A i \in Instances :
            votes'[i] # votes[i] =>
                \E r \in Slots :
                    /\ Answered(r) /\ reqs'[r].inst = i /\ reqs'[r].status = 201
                    /\ votes'[i] = Append(votes[i], reqs'[r].vote)
       /\ \A r \in Slots :
            Answered(r) /\ reqs'[r].status \in {400, 401, 403, 409, 500} =>
                votes' = votes
       /\ GetAnsweredNow => votes' = votes]_vars

\* C23: with a vote recorded, a POST /vote was answered 409 and GET /votes
\* has just been answered with the recorded vote.
C23_Witness ==
    /\ \E r \in Slots : reqs[r].st = "done" /\ reqs[r].status = 409
    /\ lastGet.path = "/votes" /\ Len(lastGet.list) = 1

-----------------------------------------------------------------------------
\* The number of the votes for election e and candidate c that process i
\* has answered as accepted.
AcceptedFor(i, e, c) ==
    Cardinality({g \in Slots : /\ Accepted(g) /\ reqs[g].inst = i
                               /\ reqs[g].vote.electionId = Str(e)
                               /\ reqs[g].vote.candidateId = Str(c)})

\* The number of the votes for election e that process i has answered as
\* accepted.
AcceptedIn(i, e) ==
    Cardinality({g \in Slots : /\ Accepted(g) /\ reqs[g].inst = i
                               /\ reqs[g].vote.electionId = Str(e)})

\* The vote answered to request g is in the vote list of its process.
Stored(g) ==
    \E k \in 1..Len(votes[reqs[g].inst]) : votes[reqs[g].inst][k] = reqs[g].vote

\* The answer to GET /votes/{e} includes, for candidate c, the votes that the
\* process has answered as accepted.
Visible(c) ==
    /\ lastGet.status = 200
    /\ Reported(lastGet.counts, c).t = "number"
    /\ Reported(lastGet.counts, c).n >= AcceptedFor(lastGet.inst, lastGet.electionId, c)
    /\ lastGet.total >= AcceptedIn(lastGet.inst, lastGet.electionId)

\* C24: a vote answered 201 is in the vote list of its process when the
\* answer is sent, and every later GET /votes/{e} of that process reports a
\* count for its candidate and a total that include it.
C24_AcceptedVisibleToReads ==
    /\ \A g \in Slots : Accepted(g) => Stored(g)
    /\ lastGet.path = "/votes/:electionId" =>
          \A c \in CandidateNames :
              AcceptedFor(lastGet.inst, lastGet.electionId, c) > 0 => Visible(c)

\* C24, for the Node service and the candidate names that Object.prototype
\* does not know.
C24_NodeOrdinaryVisible ==
    lastGet.path = "/votes/:electionId" /\ lastGet.inst = "node" =>
        \A c \in CandidateNames \ ObjectPrototypeKeys :
            AcceptedFor("node", lastGet.electionId, c) > 0 => Visible(c)

\* C24, in part: a vote answered 201 is in the vote list of its process.
C24_AcceptedIsStored ==
    \A g \in Slots : Accepted(g) => Stored(g)

-----------------------------------------------------------------------------
\* The counts answered have an entry for candidate c exactly when a vote for
\* c in the election asked for is recorded.
EntryIffVoted(c) ==
    (c \in DOMAIN lastGet.counts) <=>
        (VotesFor(votes[lastGet.inst], lastGet.electionId, c) > 0)

\* C25: the counts object that the Node service answers to GET /votes/{e}
\* has an entry for candidate c exactly when a vote for (e, c) is recorded,
\* no entry is 0, and for an election without votes total is 0 and counts is
\* empty.
C25_CountsCreatedLazily ==
    lastGet.path = "/votes/:electionId" /\ lastGet.inst = "node" =>
        /\ lastGet.status = 200
        /\ \A c \in CandidateNames \cup {PROTO} : EntryIffVoted(c)
        /\ \A c \in DOMAIN lastGet.counts : lastGet.counts[c] # Num(0)
        /\ VotesIn(votes["node"], lastGet.electionId) = 0 =>
              lastGet.total = 0 /\ lastGet.counts = EmptyCounts

\* C25, for every candidate name but the name of the prototype accessor.
C25_LazyButForProto ==
    lastGet.path = "/votes/:electionId" /\ lastGet.inst = "node" =>
        /\ lastGet.status = 200
        /\ \A c \in CandidateNames : EntryIffVoted(c)
        /\ \A c \in DOMAIN lastGet.counts : lastGet.counts[c] # Num(0)
        /\ VotesIn(votes["node"], lastGet.electionId) = 0 =>
              lastGet.total = 0 /\ lastGet.counts = EmptyCounts

\* C25, what the Node service does with the candidate id __proto__: its
\* votes are in total, and counts never has an entry for it.
C25_ProtoNeverCounted ==
    lastGet.path = "/votes/:electionId" /\ lastGet.inst = "node" =>
        /\ PROTO \notin DOMAIN lastGet.counts
        /\ lastGet.total = VotesIn(votes["node"], lastGet.electionId)

-----------------------------------------------------------------------------
\* The scopes Hydra lists as requested in the consent request of a
\* challenge; the empty list when it lists none.
Requested(challenge) ==
    IF HydraRequestedScope(challenge).present
    THEN HydraRequestedScope(challenge).l
    ELSE <<>>

\* C26: every consent challenge is accepted with grant_scope equal to the
\* list of the scopes requested in Hydra's consent request of the challenge
\* of the request, the empty list when none is given.
C26_GrantsRequestedScopes ==
    \A f \in Flows : \A a \in ConsentsBy(f) :
        /\ ConsentFlow(f)
        /\ a.challenge = flows[f].challenge.v
        /\ a.grant_scope = Requested(a.challenge)

\* C26: a consent challenge with requested scopes has been accepted.
C26_Witness ==
    \E f \in Flows : \E a \in ConsentsBy(f) :
        flows[f].st = "done" /\ a.grant_scope = <<"openid", "vote:cast">>

-----------------------------------------------------------------------------
\* The handler of request f received an OK response to its call op.
OkReply(f, op) ==
    \E a \in flows[f].answered : a[1] = op /\ a[3] >= 200 /\ a[3] <= 299

\* whoami answered the handler of request f OK, with an email trait.
EmailReported(f) ==
    flows[f].whoami = 200 /\ SessionOf(f).identity.email.t = "string"

\* C27: a GET /consent whose fetch of the consent request and whose accept
\* call were both answered OK is answered with the redirect to Hydra's
\* redirect_to and its challenge is accepted, whatever whoami did; a whoami
\* that threw or was answered not OK leaves the id_token claims empty, the
\* email claim is there exactly when whoami answered OK with an email trait
\* and then is that trait, and the access_token data is empty.
C27_ConsentWithoutSession ==
    \A f \in Flows :
        ConsentFlow(f) =>
            /\ OkReply(f, "getConsent") /\ OkReply(f, "accept") =>
                  /\ flows[f].st = "done" /\ flows[f].status = 302
                  /\ flows[f].location = HydraRedirectTo(flows[f].challenge.v)
                  /\ ConsentsBy(f) # {}
            /\ \A a \in ConsentsBy(f) :
                  /\ a.access_token = {}
                  /\ flows[f].whoami # 200 => a.id_token = NoIdToken
                  /\ (a.id_token.email.t # "undefined") <=> EmailReported(f)
                  /\ EmailReported(f) => a.id_token.email = SessionOf(f).identity.email

\* C27: a consent challenge has been accepted for a request whose whoami
\* call threw each time.
C27_Witness ==
    \E f \in Flows :
        /\ ConsentFlow(f) /\ flows[f].st = "done" /\ flows[f].status = 302
        /\ ConsentsBy(f) # {}
        /\ "kratos" \in flows[f].called /\ flows[f].whoami = 0

-----------------------------------------------------------------------------
\* The handler of request f received a response to its call op that was not
\* OK.
NotOkReply(f, op) ==
    \E a \in flows[f].answered : a[1] = op /\ ~(a[3] >= 200 /\ a[3] <= 299)

\* Request f was answered with a redirect to a redirect_to of Hydra.
RedirectedToHydra(f) ==
    /\ flows[f].st = "done" /\ flows[f].status = 302
    /\ flows[f].location # <<>> /\ Head(flows[f].location) = "hydra-continues"

\* C28: a GET /login is answered with the redirect to Hydra's redirect_to
\* only when whoami answered OK with an identity id and Hydra answered the
\* accept call OK, and then to the redirect_to of its challenge; when Hydra
\* answers the accept call not OK the request is answered 500 at once: the
\* handler sends no further accept call and no redirect.
C28_RedirectOnlyAfterAccept ==
    \A f \in Flows :
        LoginFlow(f) =>
            /\ RedirectedToHydra(f) =>
                  /\ flows[f].whoami = 200 /\ HasIdentity(f)
                  /\ OkReply(f, "accept")
                  /\ flows[f].location = HydraRedirectTo(flows[f].challenge.v)
            /\ NotOkReply(f, "accept") =>
                  /\ flows[f].st = "done" /\ flows[f].status = 500
                  /\ flows[f].location = <<>>
                  /\ Replies(flows[f], "accept") = 1

\* C28: Hydra answered the accept call of a request of the Node service not
\* OK, after an attempt of the call that threw.
C28_Witness ==
    \E f \in Flows :
        /\ LoginFlow(f) /\ flows[f].inst = "node" /\ flows[f].st = "done"
        /\ NotOkReply(f, "accept") /\ flows[f].i > 0

-----------------------------------------------------------------------------
\* C29: a GET /login without login_challenge and a GET /consent without
\* consent_challenge are answered 400, and their handlers send no request to
\* Kratos or Hydra: no call is made, no response received and no challenge
\* accepted.
C29_MissingChallengeIs400 ==
    \A f \in Flows :
        (LoginFlow(f) \/ ConsentFlow(f)) /\ ~flows[f].challenge.present =>
            /\ flows[f].st = "done" /\ flows[f].status = 400
            /\ flows[f].location = <<>>
            /\ flows[f].called = {} /\ flows[f].answered = {}
            /\ LoginsBy(f) = {} /\ ConsentsBy(f) = {}

\* C29: a request without its challenge has been answered by the Node
\* service.
C29_Witness ==
    \E f \in Flows :
        /\ LoginFlow(f) \/ ConsentFlow(f)
        /\ flows[f].inst = "node" /\ ~flows[f].challenge.present
        /\ flows[f].st = "done"

-----------------------------------------------------------------------------
\* Call f of fetchWithRetry, made with maxRetries >= 1.
FetchCall(f) == flows[f].kind = "fetch" /\ flows[f].maxRetries >= 1

\* What holds of call f while it runs and when it has ended: it makes at
\* most maxRetries attempts, every attempt before the last one made threw,
\* and it ends after at least one attempt, either with the response of its
\* last attempt, the only one that did not throw, or with the error of
\* attempt number maxRetries, all attempts having thrown.
FetchWithinAttempts(f) ==
    LET fl == flows[f]
    IN  /\ fl.attempts <= fl.maxRetries
        /\ fl.threw >= fl.attempts - 1
        /\ fl.st = "fetching" => fl.threw = fl.attempts /\ fl.attempts < fl.maxRetries
        /\ fl.st = "done" =>
              /\ fl.attempts >= 1
              /\ fl.result.t \in {"response", "error"}
              /\ fl.result.at = fl.attempts
              /\ fl.result.t = "response" =>
                    fl.threw = fl.attempts - 1 /\ fl.result.status \in Statuses
              /\ (fl.result.t = "error") <=> (fl.threw = fl.maxRetries)

\* C30: a call of fetchWithRetry with maxRetries >= 1 ends, after at least
\* one and at most maxRetries attempts; it returns the response of the first
\* attempt that does not throw, whatever its status, and makes no attempt
\* after it; it throws the error of its last attempt exactly when all
\* maxRetries attempts threw.
C30_FetchWithRetryTerminates ==
    \A f \in Flows :
        /\ [](FetchCall(f) => FetchWithinAttempts(f))
        /\ [](FetchCall(f) => <>(flows[f].st = "done"))

\* C30: a call with maxRetries > 1 has returned a response that is not OK
\* after an attempt that threw.
C30_Witness ==
    \E f \in Flows :
        /\ FetchCall(f) /\ flows[f].st = "done"
        /\ flows[f].result.t = "response" /\ flows[f].result.status = 503
        /\ flows[f].threw > 0

-----------------------------------------------------------------------------
(* C31: the two vote APIs answer the same.                                   *)

\* The pair of slots r, r + 1 has been answered by both services.
PairAnswered(r) == reqs[r].st = "done" /\ reqs[r + 1].st = "done"

\* Every request sent has been answered by both services.
AllAnswered ==
    \A r \in Firsts : reqs[r].st = "idle" \/ PairAnswered(r)

\* The (electionId, candidateId, sub) of the votes process i holds.
RecordedVotes(i) ==
    {<<[t |-> votes[i][k].electionId.t, v |-> votes[i][k].electionId.v],
       [t |-> votes[i][k].candidateId.t, v |-> votes[i][k].candidateId.v],
       votes[i][k].sub>> : k \in 1..Len(votes[i])}

\* C31: a request sent to both services with the same token and the same
\* body gets the same status code from both, and once every request has been
\* answered by both, both hold the same set of (electionId, candidateId,
\* sub) votes.
C31_NodeAndJavaEquivalent ==
    /\ \A r \in Firsts : PairAnswered(r) => reqs[r].status = reqs[r + 1].status
    /\ AllAnswered => RecordedVotes("node") = RecordedVotes("java")

\* The token of slot r verifies, grants vote:cast in the scope string, and
\* the body carries two non-empty ids.
PlainVote(r) ==
    /\ Genuine(reqs[r].tok)
    /\ reqs[r].tok.scope.t = "string"
    /\ Truthy(reqs[r].body.electionId)
    /\ Truthy(reqs[r].body.candidateId)

\* C31, as far as it holds: for a token that verifies and carries its scopes
\* in the scope string, and a body with two non-empty ids, both services
\* answer the same and record the same vote.
C31_EquivalentOnPlainVotes ==
    /\ \A r \in Firsts :
          PairAnswered(r) /\ PlainVote(r) => reqs[r].status = reqs[r + 1].status
    /\ (AllAnswered /\ \A r \in Firsts : reqs[r].st = "done" => PlainVote(r))
          => RecordedVotes("node") = RecordedVotes("java")

\* A token that fails verification for another reason than its payload is
\* answered 500 by the Node service and 401 by the Java service.
C31_UnverifiedDiffer ==
    \A r \in Firsts :
        (/\ PairAnswered(r)
         /\ reqs[r].tok.auth
         /\ ~Genuine(reqs[r].tok)
         /\ reqs[r].tok.payload = "object")
        => reqs[r].status = 500 /\ reqs[r + 1].status = 401

\* A verified token with vote:cast in the scp array, or a body whose id is
\* the empty string under a voter's token: the Java service records the
\* vote, the Node service refuses it.
C31_JavaAcceptsMore ==
    \A r \in Firsts :
        (/\ PairAnswered(r)
         /\ Genuine(reqs[r].tok)
         /\ Includes(extractScopes(reqs[r].tok), REQUIRED_SCOPE)
         /\ ~PlainVote(r))
        => reqs[r].status \in {400, 403} /\ reqs[r + 1].status = 201

-----------------------------------------------------------------------------
(* C32: the two login-consent services answer GET /login the same.           *)

\* The statuses of the responses that the handler of request f got to its
\* call op; none when every attempt failed.
StatusesGot(f, op) == {a[3] : a \in {b \in flows[f].answered : b[1] = op}}

\* Requests f and g met the same Kratos and the same Hydra: a service that
\* both handlers called was unreachable for both or gave both a response
\* with the same status.
SameReplies(f, g) ==
    /\ ("kratos" \in flows[f].called /\ "kratos" \in flows[g].called)
          => StatusesGot(f, "whoami") = StatusesGot(g, "whoami")
    /\ ("hydra" \in flows[f].called /\ "hydra" \in flows[g].called)
          => StatusesGot(f, "accept") = StatusesGot(g, "accept")

\* The outcome of GET /login: 400, 500, the redirect to Hydra's redirect_to
\* or the redirect to the login page of the Kratos UI.
LoginOutcome(f) ==
    IF flows[f].status # 302 THEN <<"status", flows[f].status>>
    ELSE IF RedirectedToHydra(f) THEN <<"redirect", "hydra">>
    ELSE IF WithoutQuery(flows[f].location) = KRATOS_UI_URL \o <<"/", "login">>
    THEN <<"redirect", "kratos-ui">>
    ELSE <<"redirect", "elsewhere">>

\* Both services have answered the request sent as f and f + 1.
BothAnswered(f) == flows[f].st = "done" /\ flows[f + 1].st = "done"

\* C32: a GET /login sent to both services with the same login_challenge
\* and the same cookie, to which Kratos and Hydra reply the same, has the
\* same outcome in both.
C32_SameLoginOutcome ==
    \A f \in NodeSides :
        BothAnswered(f) /\ SameReplies(f, f + 1)
            => LoginOutcome(f) = LoginOutcome(f + 1)

\* The request comes without login_challenge or with a non-empty one, Kratos
\* answered the whoami call of both handlers, and the session it reported,
\* if any, has an identity id.
OrdinaryLogin(f) ==
    /\ flows[f].challenge.present => flows[f].challenge.v # <<>>
    /\ \A g \in {f, f + 1} :
          "kratos" \in flows[g].called => StatusesGot(g, "whoami") # {}
    /\ flows[f].cookie # "anonymous-session"

\* C32, as far as it holds: when the challenge is absent or not empty,
\* Kratos is reachable and its session has an identity id, the outcome is
\* the same in both services.
C32_SameOrdinaryOutcome ==
    \A f \in NodeSides :
        BothAnswered(f) /\ SameReplies(f, f + 1) /\ OrdinaryLogin(f)
            => LoginOutcome(f) = LoginOutcome(f + 1)

\* Kratos unreachable, or a session without an identity id: the Node service
\* answers 500, the Java service redirects to the Kratos UI.
C32_NoSubjectDiffers ==
    \A f \in NodeSides :
        (/\ BothAnswered(f)
         /\ flows[f].challenge.present /\ flows[f].challenge.v # <<>>
         /\ \/ StatusesGot(f, "whoami") = {} /\ StatusesGot(f + 1, "whoami") = {}
            \/ /\ flows[f].cookie = "anonymous-session"
               /\ StatusesGot(f, "whoami") = {200}
               /\ StatusesGot(f + 1, "whoami") = {200})
        => /\ LoginOutcome(f) = <<"status", 500>>
           /\ LoginOutcome(f + 1) = <<"redirect", "kratos-ui">>

\* An empty login_challenge: the Node service answers 400 and calls nobody,
\* the Java service goes on to ask Kratos.
C32_EmptyChallengeDiffers ==
    \A f \in NodeSides :
        BothAnswered(f) /\ flows[f].challenge = Param(<<>>)
            => /\ LoginOutcome(f) = <<"status", 400>>
               /\ flows[f].called = {}
               /\ "kratos" \in flows[f + 1].called
               /\ LoginOutcome(f + 1) # <<"status", 400>>

-----------------------------------------------------------------------------
(* C33: the Java vote API serves only after the key set was loaded.          *)

\* The Java process takes up request r in this step: the handler of POST
\* /vote starts, or the request is answered.
JavaProcesses(r) ==
    /\ reqs'[r].inst = "java"
    /\ reqs'[r].st # reqs[r].st
    /\ reqs'[r].st \in {"verifying", "done"}

\* The Java process answers a GET request in this step.
JavaAnswersGet == lastGet' # lastGet /\ lastGet'.inst = "java"

\* C33: the Java process serves exactly when its start has loaded the key
\* set; it takes up or answers a request only then; and a process whose
\* start failed to load the key set never comes to serve: the Java service
\* serves again only when a new process is started and loads the key set.
C33_ServesOnlyAfterKeysLoaded ==
    /\ [](proc["java"].up <=> proc["java"].keys)
    /\ [][/\ \A r \in Slots :
               JavaProcesses(r) => proc["java"].up /\ proc["java"].keys
          /\ JavaAnswersGet => proc["java"].up /\ proc["java"].keys
          /\ (~proc["java"].up /\ proc'["java"].up) => Restart("java", TRUE)]_vars

\* C33: the start of the Java process has failed to load the key set, and
\* meanwhile the Node process has accepted a vote and answered a read.
C33_Witness ==
    /\ ~proc["java"].up /\ ~proc["java"].keys /\ proc["java"].fetches = 1
    /\ \E r \in Slots : reqs[r].st = "done" /\ reqs[r].inst = "node" /\ reqs[r].status = 201
    /\ lastGet.inst = "node" /\ lastGet.path = "/votes"

====
